---------------------------- MODULE Spec2Model ----------------------------
(***************************************************************************)
(* A model of the Freshdesk gateway: the FreshdeskAPI client (request     *)
(* adaptation, pagination cursor recovery, the all-articles traversal)    *)
(* and the tool / resource handlers that wrap it.                         *)
(*                                                                         *)
(* Text is modelled as a sequence of one-character strings, so that the   *)
(* Link header is formatted by the remote side and parsed by the client   *)
(* the way the code parses it (split, regular expression, URL, query      *)
(* string, parseInt).                                                      *)
(***************************************************************************)
EXTENDS Integers, Sequences, FiniteSets, TLC

VARIABLES
    pc,        \* position of the invocation: "idle", "wait", "done"
    layer,     \* who was invoked: "tool", "client" or "resource"
    op,        \* the operation invoked
    input,     \* its arguments
    sent,      \* the requests issued by this invocation, in order
    served,    \* the replies the remote side gave to them, in order
    outcome,   \* what the invocation returned or threw
    trav,      \* local variables of the multi-request traversals
    hdr,       \* the Link header handed to parseLinkHeader
    cursor,    \* the PaginationInfo parseLinkHeader returned
    apiKey,    \* the API key the FreshdeskAPI instance was constructed with
    domain,    \* the domain it was constructed with
    baseUrl,   \* the base URL the constructor derived from the domain
    parked     \* the local state of the other invocation in flight, suspended

vars == <<pc, layer, op, input, sent, served, outcome, trav, hdr, cursor, apiKey, domain, baseUrl, parked>>

-----------------------------------------------------------------------------
(* Bounds of the model.                                                    *)

\* Link headers carry at most this many entries.
MaxLinks == 2
\* Page numbers passed by callers range over -1 .. MaxPage.
MaxPage == 3
\* Page sizes passed by callers lie within this distance of 1 and of 100.
PerPageSlack == 1
\* The remote side has at most this many categories.
MaxCats == 2
\* A category has at most this many folders.
MaxFolders == 2
\* at most this many filters are supplied to one listing of tickets
MaxFilters == 1

-----------------------------------------------------------------------------
(* Text helpers.                                                           *)

Min(S) == CHOOSE x \in S : \A y \in S : x <= y

\* The sequences s[from..] (JavaScript's s.substring(from - 1)).
Tail2(s, from) == SubSeq(s, from, Len(s))

\* The first index >= from at which character c occurs in s, or 0.
IndexOf(s, c, from) ==
    LET I == {i \in from..Len(s) : s[i] = c}
    IN  IF I = {} THEN 0 ELSE Min(I)

\* Whether pat occurs in s at index k.
StartsWithAt(s, pat, k) ==
    /\ k >= 1
    /\ k + Len(pat) - 1 <= Len(s)
    /\ \A i \in 1..Len(pat) : s[k + i - 1] = pat[i]

\* Whether pat occurs somewhere in s.
Includes(s, pat) == \E k \in 1..Len(s) : StartsWithAt(s, pat, k)

\* String.prototype.split on a one-character separator.
RECURSIVE Split(_, _)
Split(s, sep) ==
    LET k == IndexOf(s, sep, 1)
    IN  IF k = 0 THEN <<s>>
        ELSE <<SubSeq(s, 1, k - 1)>> \o Split(Tail2(s, k + 1), sep)

\* The concatenation of the texts of a sequence, with sep between them.
RECURSIVE Join(_, _)
Join(parts, sep) ==
    IF parts = <<>> THEN <<>>
    ELSE IF Len(parts) = 1 THEN parts[1]
    ELSE parts[1] \o sep \o Join(Tail(parts), sep)

WhiteSpace == {" "}
Digits == {"0", "1", "2", "3", "4", "5", "6", "7", "8", "9"}
DigitVal(c) ==
    CASE c = "0" -> 0 [] c = "1" -> 1 [] c = "2" -> 2 [] c = "3" -> 3
      [] c = "4" -> 4 [] c = "5" -> 5 [] c = "6" -> 6 [] c = "7" -> 7
      [] c = "8" -> 8 [] c = "9" -> 9

\* The first index >= k of s that holds no white space (Len(s) + 1 if none).
SkipWs(s, k) ==
    LET I == {i \in k..Len(s) : s[i] \notin WhiteSpace}
    IN  IF I = {} THEN Len(s) + 1 ELSE Min(I)

-----------------------------------------------------------------------------
(* JavaScript library functions used by parseLinkHeader.                   *)

\* parseInt(s, 10) skips leading white space and one sign, then reads the
\* longest run of decimal digits; it is NaN when that run is empty.
IntStart(s) ==
    LET k == SkipWs(s, 1)
    IN  IF k <= Len(s) /\ s[k] \in {"+", "-"} THEN k + 1 ELSE k

IntEnd(s) ==
    LET I == {i \in IntStart(s)..Len(s) : s[i] \notin Digits}
    IN  IF I = {} THEN Len(s) ELSE Min(I) - 1

RECURSIVE DecimalValue(_)
DecimalValue(ds) ==
    IF ds = <<>> THEN 0
    ELSE 10 * DecimalValue(SubSeq(ds, 1, Len(ds) - 1)) + DigitVal(ds[Len(ds)])

ParseIntIsNaN(s) == IntEnd(s) < IntStart(s)

ParseIntValue(s) ==
    LET k == SkipWs(s, 1)
        v == DecimalValue(SubSeq(s, IntStart(s), IntEnd(s)))
    IN  IF k <= Len(s) /\ s[k] = "-" THEN 0 - v ELSE v

\* new URL(url) for the URLs of the model: an https URL with a host parses,
\* a reference without a scheme (a relative URL) throws TypeError.
HttpsScheme == <<"h", "t", "t", "p", "s", ":", "/", "/">>

UrlParses(url) ==
    /\ StartsWithAt(url, HttpsScheme, 1)
    /\ Len(url) > Len(HttpsScheme)
    /\ url[Len(HttpsScheme) + 1] \notin {"/", "?", "#"}

\* URL.search: "?" and the query, up to the fragment; empty without a query.
UrlSearch(url) ==
    LET h == IndexOf(url, "#", 1)
        u == IF h = 0 THEN url ELSE SubSeq(url, 1, h - 1)
        q == IndexOf(u, "?", 1)
    IN  IF q = 0 \/ q = Len(u) THEN <<>> ELSE Tail2(u, q)

\* new URLSearchParams(search): the leading "?" is dropped, the rest is split
\* on "&", empty pieces are skipped, each piece is split at its first "=".
SearchPair(p) ==
    LET e == IndexOf(p, "=", 1)
    IN  IF e = 0 THEN [name |-> p, value |-> <<>>]
        ELSE [name |-> SubSeq(p, 1, e - 1), value |-> Tail2(p, e + 1)]

SearchParams(search) ==
    LET body  == IF search # <<>> /\ search[1] = "?" THEN Tail(search) ELSE search
        parts == SelectSeq(Split(body, "&"), LAMBDA p : p # <<>>)
    IN  [i \in 1..Len(parts) |-> SearchPair(parts[i])]

\* URLSearchParams.get(name): the value of the first pair of that name, or null.
ParamsGet(params, name) ==
    LET I == {i \in 1..Len(params) : params[i].name = name}
    IN  IF I = {} THEN [found |-> FALSE, value |-> <<>>]
        ELSE [found |-> TRUE, value |-> params[Min(I)].value]

-----------------------------------------------------------------------------
(* parseLinkHeader.                                                        *)

PageKey == <<"p", "a", "g", "e">>
RelOpen == <<"r", "e", "l", "=", "\"">>
RelNext == <<"n", "e", "x", "t">>
RelPrev == <<"p", "r", "e", "v">>
RelLast == <<"l", "a", "s", "t">>

\* The regular expression /<(.+?)>;\s*rel="(.+?)"/ matches s with "<" at i
\* and the ">" closing group 1 at j.
LinkMatchAt(s, i, j) ==
    /\ s[i] = "<"
    /\ j >= i + 2
    /\ s[j] = ">"
    /\ j + 1 <= Len(s)
    /\ s[j + 1] = ";"
    /\ LET w == SkipWs(s, j + 2)
       IN  /\ StartsWithAt(s, RelOpen, w)
           /\ IndexOf(s, "\"", w + Len(RelOpen) + 1) # 0

\* link.match(regex): the leftmost match, both groups as short as possible.
LinkMatch(s) ==
    LET M == {p \in {i \in 1..Len(s) : s[i] = "<"} \X {j \in 1..Len(s) : s[j] = ">"} :
                 LinkMatchAt(s, p[1], p[2])}
    IN  IF M = {} THEN [matched |-> FALSE, url |-> <<>>, rel |-> <<>>]
        ELSE LET i == Min({p[1] : p \in M})
                 j == Min({p[2] : p \in {r \in M : r[1] = i}})
                 w == SkipWs(s, j + 2)
                 a == w + Len(RelOpen)
                 z == IndexOf(s, "\"", a + 1)
             IN  [matched |-> TRUE,
                  url |-> SubSeq(s, i + 1, j - 1),
                  rel |-> SubSeq(s, a, z - 1)]

\* PaginationInfo: an object whose keys nextPage and prevPage are optional.
NoPagination == [k \in {} |-> 0]
SetKey(obj, key, val) ==
    [k \in DOMAIN obj \cup {key} |-> IF k = key THEN val ELSE obj[k]]

\* The callback of links.forEach: one entry of the header applied to the cursor.
ApplyLinkNoRelCheck(pagination, link) ==
    LET m == LinkMatch(link)
    IN  IF ~m.matched THEN pagination
        ELSE IF ~UrlParses(m.url) THEN pagination
        ELSE LET page == ParamsGet(SearchParams(UrlSearch(m.url)), PageKey)
             IN  IF page.found /\ page.value # <<>> /\ ~ParseIntIsNaN(page.value)
                 THEN IF m.rel = RelNext
                      THEN SetKey(pagination, "nextPage", ParseIntValue(page.value))
                      ELSE SetKey(pagination, "prevPage", ParseIntValue(page.value))
                 ELSE pagination

ApplyLink(pagination, link) ==
    LET m == LinkMatch(link)
    IN  IF ~m.matched THEN pagination
        ELSE IF ~UrlParses(m.url) THEN pagination
        ELSE LET page == ParamsGet(SearchParams(UrlSearch(m.url)), PageKey)
             IN  IF /\ page.found
                    /\ page.value # <<>>
                    /\ m.rel \in {RelNext, RelPrev}
                    /\ ~ParseIntIsNaN(page.value)
                 THEN IF m.rel = RelNext
                      THEN SetKey(pagination, "nextPage", ParseIntValue(page.value))
                      ELSE SetKey(pagination, "prevPage", ParseIntValue(page.value))
                 ELSE pagination

RECURSIVE ForEachLink(_, _)
ForEachLink(pagination, links) ==
    IF links = <<>> THEN pagination
    ELSE ForEachLink(ApplyLink(pagination, Head(links)), Tail(links))

\* A header value is [present, text]: headers.get('Link') is null when absent.
NoHeader == [present |-> FALSE, text |-> <<>>]
HeaderOf(text) == [present |-> TRUE, text |-> text]

parseLinkHeader(linkHeader) ==
    IF ~linkHeader.present \/ linkHeader.text = <<>> THEN NoPagination
    ELSE ForEachLink(NoPagination, Split(linkHeader.text, ","))

-----------------------------------------------------------------------------
(* JSON values, replies of the remote side, results of an invocation.      *)

NoKeys == [k \in {} |-> ""]
Unparsable == [kind |-> "unparsable", obj |-> NoKeys, items |-> <<>>]
JNull == [kind |-> "null", obj |-> NoKeys, items |-> <<>>]
JObject(o) == [kind |-> "object", obj |-> o, items |-> <<>>]
JArray(xs) == [kind |-> "array", obj |-> NoKeys, items |-> xs]
EmptyRecord == JObject(NoKeys)

\* obj?.key: the value under key as a one-element sequence, <<>> if undefined.
Field(body, key) ==
    IF body.kind = "object" /\ key \in DOMAIN body.obj
    THEN <<body.obj[key]>> ELSE <<>>

StatusText(status) ==
    CASE status = 200 -> "OK"
      [] status = 204 -> "No Content"
      [] status = 404 -> "Not Found"
      [] status = 500 -> "Internal Server Error"

\* Response.ok
IsOk(status) == status >= 200 /\ status <= 299

NetFail == [net |-> TRUE, status |-> 0, body |-> Unparsable, link |-> NoHeader]
Http(status, body, link) ==
    [net |-> FALSE, status |-> status, body |-> body, link |-> link]

NoOutcome == [kind |-> "none"]
Return(v) == [kind |-> "return", value |-> v]
Throw(e) == [kind |-> "throw", error |-> e]

\* Error objects: the parts of their message.
MakeError(name, status, text, details, note) ==
    [name |-> name, status |-> status, text |-> text, details |-> details,
     note |-> note]
FetchError == MakeError("TypeError", 0, "fetch failed", <<>>, "")
SyntaxError == MakeError("SyntaxError", 0, "Unexpected end of JSON input", <<>>, "")
NotIterable == MakeError("TypeError", 0, "is not iterable", <<>>, "")
EmptyPayload == MakeError("Error", 0, "Update payload cannot be empty.", <<>>, "")

-----------------------------------------------------------------------------
(* Node library functions used by requestRaw.                              *)

\* The ASCII characters of codes 32 to 95, and the lower-case letters of
\* codes 97 to 122.
AsciiUpper ==
    <<" ", "!", "\"", "#", "$", "%", "&", "'", "(", ")", "*", "+", ",", "-", ".", "/",
      "0", "1", "2", "3", "4", "5", "6", "7", "8", "9", ":", ";", "<", "=", ">", "?",
      "@", "A", "B", "C", "D", "E", "F", "G", "H", "I", "J", "K", "L", "M", "N", "O",
      "P", "Q", "R", "S", "T", "U", "V", "W", "X", "Y", "Z", "[", "\\", "]", "^", "_">>
AsciiLower ==
    <<"a", "b", "c", "d", "e", "f", "g", "h", "i", "j", "k", "l", "m", "n", "o", "p",
      "q", "r", "s", "t", "u", "v", "w", "x", "y", "z">>
CharCode(c) ==
    IF \E i \in 1..Len(AsciiLower) : AsciiLower[i] = c
    THEN 96 + Min({i \in 1..Len(AsciiLower) : AsciiLower[i] = c})
    ELSE 31 + Min({i \in 1..Len(AsciiUpper) : AsciiUpper[i] = c})

\* Buffer.from(text): the bytes of an ASCII text.
Bytes(text) == [i \in 1..Len(text) |-> CharCode(text[i])]

\* buffer.toString('base64')
Base64Alphabet ==
    <<"A", "B", "C", "D", "E", "F", "G", "H", "I", "J", "K", "L", "M", "N", "O", "P",
      "Q", "R", "S", "T", "U", "V", "W", "X", "Y", "Z", "a", "b", "c", "d", "e", "f",
      "g", "h", "i", "j", "k", "l", "m", "n", "o", "p", "q", "r", "s", "t", "u", "v",
      "w", "x", "y", "z", "0", "1", "2", "3", "4", "5", "6", "7", "8", "9", "+", "/">>
Base64Digit(n) == Base64Alphabet[n + 1]
Base64Group(b) ==
    LET n == b[1] * 65536 + (IF Len(b) > 1 THEN b[2] * 256 ELSE 0)
                          + (IF Len(b) > 2 THEN b[3] ELSE 0)
    IN  <<Base64Digit(n \div 262144),
          Base64Digit((n \div 4096) % 64),
          IF Len(b) > 1 THEN Base64Digit((n \div 64) % 64) ELSE "=",
          IF Len(b) > 2 THEN Base64Digit(n % 64) ELSE "=">>
RECURSIVE Base64(_)
Base64(bytes) ==
    IF bytes = <<>> THEN <<>>
    ELSE IF Len(bytes) <= 3 THEN Base64Group(bytes)
    ELSE Base64Group(SubSeq(bytes, 1, 3)) \o Base64(SubSeq(bytes, 4, Len(bytes)))

-----------------------------------------------------------------------------
(* The Transport Adapter.                                                  *)

\* The API keys an instance may be constructed with.
Keys == {<<"k", "1">>, <<"a", "b", "c">>}

\* const auth = Buffer.from(`${this.apiKey}:X`).toString('base64')
AuthNoPlaceholder(key) == Base64(Bytes(key))
Auth(key) == Base64(Bytes(key \o <<":", "X">>))

\* The headers option of a gateway call: no method passes one.
NoHeaders == [k \in {} |-> <<>>]

\* headers: { 'Content-Type': ..., 'Authorization': `Basic ${auth}`, ...options.headers }
Headers(key, optionHeaders) ==
    LET own == [ContentType |-> "application/json",
                Authorization |-> <<"B", "a", "s", "i", "c", " ">> \o Auth(key)]
    IN  [k \in DOMAIN own \cup DOMAIN optionHeaders |->
            IF k \in DOMAIN optionHeaders THEN optionHeaders[k] ELSE own[k]]

\* `Freshdesk API Error (${status}): ${errorData?.message || statusText}${validationErrors}`
ApiErrorNoDetails(reply) ==
    LET message == Field(reply.body, "message")
    IN  MakeError("Error", reply.status,
                  IF message # <<>> /\ message[1] # "" THEN message[1]
                  ELSE StatusText(reply.status),
                  <<>>, "")

ApiError(reply) ==
    LET message == Field(reply.body, "message")
    IN  MakeError("Error", reply.status,
                  IF message # <<>> /\ message[1] # "" THEN message[1]
                  ELSE StatusText(reply.status),
                  Field(reply.body, "errors"), "")

\* A text as one string: what a template literal makes of its pieces.
RECURSIVE Str(_)
Str(chars) == IF chars = <<>> THEN "" ELSE chars[1] \o Str(Tail(chars))

\* `Freshdesk API Error (${status}): ${statusText}. Failed to parse response body.`
ParseFailureEchoAuth(reply) ==
    MakeError("Error", reply.status, StatusText(reply.status), <<>>, Str(Auth(apiKey)))

ParseFailure(reply) ==
    MakeError("Error", reply.status, StatusText(reply.status), <<>>,
              "Failed to parse response body.")

\* request<T>: the result of the call once fetch has settled with reply.
requestOkOnly(reply) ==
    IF reply.net THEN Throw(FetchError)
    ELSE IF reply.status = 204 THEN Return(EmptyRecord)
    ELSE IF reply.body.kind = "unparsable" THEN Return(EmptyRecord)
    ELSE Return(reply.body)

request(reply) ==
    IF reply.net THEN Throw(FetchError)
    ELSE IF reply.status = 204 THEN Return(EmptyRecord)
    ELSE IF reply.body.kind = "unparsable"
         THEN IF ~IsOk(reply.status) THEN Throw(ParseFailure(reply))
              ELSE Return(EmptyRecord)
    ELSE IF ~IsOk(reply.status) THEN Throw(ApiError(reply))
    ELSE Return(reply.body)

-----------------------------------------------------------------------------
(* The Operation Gateway: the methods of FreshdeskAPI.                     *)

\* Methods whose body is a single `return this.request(...)`.
PlainOps ==
    {"getFolders", "getArticles", "getArticle", "searchArticles",
     "createTicket", "getTicket", "searchTickets", "getTicketConversation",
     "createTicketReply", "createTicketNote", "getTicketFields",
     "viewTicketField", "createTicketField", "getContact", "createContact",
     "searchContacts", "listContactFields", "viewContactField",
     "createContactField"}
UpdateOps == {"updateTicket", "updateTicketField", "updateContact", "updateContactField"}
ListOps == {"listTickets", "listContacts"}
SingleOps == PlainOps \cup UpdateOps \cup ListOps \cup {"getCategories", "deleteTicket"}
ClientOps == SingleOps \cup {"getAllArticles"}

HttpMethod(o) ==
    IF o \in {"createTicket", "createTicketReply", "createTicketNote",
              "createTicketField", "createContact", "createContactField"}
    THEN "POST"
    ELSE IF o \in UpdateOps THEN "PUT"
    ELSE IF o = "deleteTicket" THEN "DELETE"
    ELSE "GET"

\* The endpoint of a method, with ":id" where the identifier is spliced in.
Path(o) ==
    CASE o = "getCategories" -> "/solutions/categories"
      [] o = "getFolders" -> "/solutions/categories/:id/folders"
      [] o = "getArticles" -> "/solutions/folders/:id/articles"
      [] o = "getArticle" -> "/solutions/articles/:id"
      [] o = "searchArticles" -> "/search/solutions"
      [] o \in {"createTicket", "listTickets"} -> "/tickets"
      [] o \in {"getTicket", "updateTicket", "deleteTicket"} -> "/tickets/:id"
      [] o = "searchTickets" -> "/search/tickets"
      [] o = "getTicketConversation" -> "/tickets/:id/conversations"
      [] o = "createTicketReply" -> "/tickets/:id/reply"
      [] o = "createTicketNote" -> "/tickets/:id/notes"
      [] o \in {"getTicketFields", "createTicketField"} -> "/ticket_fields"
      [] o \in {"viewTicketField", "updateTicketField"} -> "/ticket_fields/:id"
      [] o \in {"listContacts", "createContact"} -> "/contacts"
      [] o \in {"getContact", "updateContact"} -> "/contacts/:id"
      [] o = "searchContacts" -> "/contacts/autocomplete"
      [] o \in {"listContactFields", "createContactField"} -> "/contact_fields"
      [] o \in {"viewContactField", "updateContactField"} -> "/contact_fields/:id"

NoQuery == [k \in {} |-> 0]
\* The object JSON.stringify receives, by its keys; a request without the
\* body option carries none.
JsonObject(keys) == [k \in keys |-> "set"]
NoBody == [present |-> FALSE, json |-> <<>>]
JsonBody(json) == [present |-> TRUE, json |-> json]

TicketFieldOps == {"createTicketField", "updateTicketField"}
ContactFieldOps == {"createContactField", "updateContactField"}

BodyBare(o, payload) ==
    IF HttpMethod(o) \in {"POST", "PUT"} THEN JsonBody(JsonObject(payload)) ELSE NoBody

\* body: JSON.stringify(payload), JSON.stringify({ ticket_field: payload }) or
\* JSON.stringify({ contact_field: payload })
Body(o, payload) ==
    IF o \in TicketFieldOps THEN JsonBody([ticket_field |-> JsonObject(payload)])
    ELSE IF o \in ContactFieldOps THEN JsonBody([contact_field |-> JsonObject(payload)])
    ELSE IF HttpMethod(o) \in {"POST", "PUT"} THEN JsonBody(JsonObject(payload))
    ELSE NoBody

\* this.baseUrl = `https://${domain}/api/v2`
Domains == {<<"x", ".", "f", "d">>}
BaseUrlOf(d) ==
    <<"h", "t", "t", "p", "s", ":", "/", "/">> \o d \o <<"/", "a", "p", "i", "/", "v", "2">>

Request(o, id, query) ==
    [base |-> baseUrl, method |-> HttpMethod(o), path |-> Path(o), id |-> id, query |-> query,
     headers |-> Headers(apiKey, NoHeaders), body |-> NoBody]

\* Math.max(1, page) and Math.min(Math.max(1, perPage), 100)
MaxPerPage == 100
ValidPage(page) == IF page > 1 THEN page ELSE 1
ValidPerPageNoCap(perPage) == IF perPage > 1 THEN perPage ELSE 1
ValidPerPage(perPage) ==
    LET low == IF perPage > 1 THEN perPage ELSE 1
    IN  IF low < MaxPerPage THEN low ELSE MaxPerPage

ListQuery(page, perPage) ==
    [page |-> ValidPage(page), per_page |-> ValidPerPage(perPage)]

\* Object.keys(payload).length === 0 in the update methods.
UpdateRejectsNever(payload) == FALSE
UpdateRejects(payload) == Cardinality(payload) = 0

\* The filters listTickets appends to the query when they are truthy ...
MappedFilters ==
    {"email", "requester_id", "company_id", "status", "priority", "source",
     "group_id", "agent_id", "tags", "created_since", "updated_since", "due_since"}

\* ... and one parameter custom_fields[key] per entry of filters.custom_fields.
CustomFieldParam == "custom_fields[cf]"

\* The filters argument of listTickets, as the set of its keys.
FiltersOf(in) == IF "filters" \in DOMAIN in THEN in.filters ELSE {}

FilterParamNames(filters) ==
    (filters \cap MappedFilters) \cup
    (IF "custom_fields" \in filters THEN {CustomFieldParam} ELSE {})

FilterParams(filters) == [k \in FilterParamNames(filters) |-> "set"]

\* The request a single-request method issues for its arguments.
RequestOf(o, in) ==
    IF o = "listTickets"
    THEN Request(o, 0, ListQuery(in.page, in.perPage) @@ FilterParams(FiltersOf(in)))
    ELSE IF o \in ListOps THEN Request(o, 0, ListQuery(in.page, in.perPage))
    ELSE [Request(o, in.id, NoQuery) EXCEPT !.body = Body(o, in.payload)]

\* listTickets / listContacts after requestRaw has settled.
listResultRawPage(in, reply) ==
    IF reply.net THEN Throw(FetchError)
    ELSE IF ~IsOk(reply.status)
         THEN Throw(ApiError(IF reply.body.kind = "unparsable"
                             THEN [reply EXCEPT !.body = JNull] ELSE reply))
    ELSE IF reply.body.kind = "unparsable" THEN Throw(SyntaxError)
    ELSE LET paginationInfo == parseLinkHeader(reply.link)
         IN  Return([kind |-> "page",
                     items |-> reply.body,
                     pagination |->
                         [k \in {"currentPage", "perPage"} \cup DOMAIN paginationInfo |->
                             CASE k = "currentPage" -> in.page
                               [] k = "perPage" -> in.perPage
                               [] OTHER -> paginationInfo[k]]])

listResult(in, reply) ==
    IF reply.net THEN Throw(FetchError)
    ELSE IF ~IsOk(reply.status)
         THEN Throw(ApiError(IF reply.body.kind = "unparsable"
                             THEN [reply EXCEPT !.body = JNull] ELSE reply))
    ELSE IF reply.body.kind = "unparsable" THEN Throw(SyntaxError)
    ELSE LET paginationInfo == parseLinkHeader(reply.link)
         IN  Return([kind |-> "page",
                     items |-> reply.body,
                     pagination |->
                         [k \in {"currentPage", "perPage"} \cup DOMAIN paginationInfo |->
                             CASE k = "currentPage" -> ValidPage(in.page)
                               [] k = "perPage" -> ValidPerPage(in.perPage)
                               [] OTHER -> paginationInfo[k]]])

\* getCategories after request has settled.
getCategoriesUnchecked(reply) ==
    LET r == request(reply)
    IN  IF r.kind = "throw" THEN Return(JArray(<<>>)) ELSE r

getCategories(reply) ==
    LET r == request(reply)
    IN  IF r.kind = "throw" THEN Return(JArray(<<>>))
        ELSE IF r.value.kind # "array" THEN Return(JArray(<<>>))
        ELSE r

\* deleteTicket awaits request and returns nothing.
Void == [kind |-> "undefined", obj |-> NoKeys, items |-> <<>>]
deleteTicketUnawaited(reply) == Return(Void)
deleteTicket(reply) ==
    LET r == request(reply)
    IN  IF r.kind = "throw" THEN r ELSE Return(Void)

\* getAllArticles as a function of the replies its requests receive, in the
\* order it issues them: the inner loop over the folders of one category ...
RECURSIVE ArticlesOfFolders(_, _)
ArticlesOfFolders(folders, replies) ==
    IF folders = <<>> THEN [articles |-> <<>>, rest |-> replies]
    ELSE LET r == request(Head(replies))
             pushed == IF r.kind = "throw" \/ r.value.kind # "array"
                       THEN <<>> ELSE r.value.items
             more == ArticlesOfFolders(Tail(folders), Tail(replies))
         IN  [articles |-> pushed \o more.articles, rest |-> more.rest]

\* ... the outer loop over the categories, which a failed getFolders leaves
\* with an exception ...
RECURSIVE ArticlesOfCategories(_, _)
ArticlesOfCategories(categories, replies) ==
    IF categories = <<>> THEN [thrown |-> <<>>, articles |-> <<>>]
    ELSE LET r == request(Head(replies))
         IN  IF r.kind = "throw" THEN [thrown |-> <<r.error>>, articles |-> <<>>]
             ELSE IF r.value.kind # "array"
             THEN [thrown |-> <<NotIterable>>, articles |-> <<>>]
             ELSE LET inner == ArticlesOfFolders(r.value.items, Tail(replies))
                      more == ArticlesOfCategories(Tail(categories), inner.rest)
                  IN  [thrown |-> more.thrown,
                       articles |-> inner.articles \o more.articles]

\* ... and the method.
getAllArticles(replies) ==
    LET categories == getCategories(Head(replies)).value.items
        walk == ArticlesOfCategories(categories, Tail(replies))
    IN  IF walk.thrown # <<>> THEN Throw(walk.thrown[1])
        ELSE Return(JArray(walk.articles))

\* What a single-request method returns or throws once its fetch settled.
ClientFinish(o, in, reply) ==
    CASE o \in ListOps -> listResult(in, reply)
      [] o = "getCategories" -> getCategories(reply)
      [] o = "deleteTicket" -> deleteTicket(reply)
      [] OTHER -> request(reply)

-----------------------------------------------------------------------------
(* The tool and resource handlers of index.ts.                             *)

UpdateTools == {"update-ticket", "update-ticket-field", "update-contact", "update-contact-field"}
ListTools == {"list-tickets", "list-contacts"}
\* Tools whose handler is one gateway call inside try/catch.
PlainTools ==
    {"search-articles", "get-ticket", "search-tickets", "get-ticket-conversation",
     "create-ticket-reply", "create-ticket-note", "get-ticket-fields",
     "view-ticket-field", "get-contact", "create-contact", "search-contacts",
     "list-contact-fields", "view-contact-field"}
CreateFieldTools == {"create-ticket-field", "create-contact-field"}
SingleTools ==
    UpdateTools \cup ListTools \cup PlainTools \cup CreateFieldTools \cup
    {"create-ticket", "delete-ticket"}

\* The gateway method a tool handler calls.
ClientOf(tool) ==
    CASE tool = "update-ticket" -> "updateTicket"
      [] tool = "update-ticket-field" -> "updateTicketField"
      [] tool = "update-contact" -> "updateContact"
      [] tool = "update-contact-field" -> "updateContactField"
      [] tool = "list-tickets" -> "listTickets"
      [] tool = "list-contacts" -> "listContacts"
      [] tool = "create-ticket" -> "createTicket"
      [] tool = "delete-ticket" -> "deleteTicket"
      [] tool = "search-articles" -> "searchArticles"
      [] tool = "get-ticket" -> "getTicket"
      [] tool = "search-tickets" -> "searchTickets"
      [] tool = "get-ticket-conversation" -> "getTicketConversation"
      [] tool = "create-ticket-reply" -> "createTicketReply"
      [] tool = "create-ticket-note" -> "createTicketNote"
      [] tool = "get-ticket-fields" -> "getTicketFields"
      [] tool = "view-ticket-field" -> "viewTicketField"
      [] tool = "get-contact" -> "getContact"
      [] tool = "create-contact" -> "createContact"
      [] tool = "search-contacts" -> "searchContacts"
      [] tool = "list-contact-fields" -> "listContactFields"
      [] tool = "view-contact-field" -> "viewContactField"
      [] tool = "create-ticket-field" -> "createTicketField"
      [] tool = "create-contact-field" -> "createContactField"
      [] tool = "get-categories" -> "getCategories"

\* The key of the identifier in the input of an update tool.
IdKey(tool) ==
    CASE tool = "update-ticket" -> "ticket_id"
      [] tool = "update-contact" -> "contact_id"
      [] OTHER -> "field_id"

\* const { ticket_id, ...updatePayload } = input
ToolUpdatePayload(tool, keys) == keys \ {IdKey(tool)}

\* An optional string argument is "absent" (undefined), "empty" ('') or
\* "set"; only "set" is truthy.  An optional e-mail address or positive
\* number is "absent" or "set".
Truthy(v) == v = "set"

\* The two pre-flight checks of the create-ticket handler.
CreateTicketCheck(in) ==
    IF /\ ~Truthy(in.email) /\ ~Truthy(in.requester_id) /\ ~Truthy(in.facebook_id)
       /\ ~Truthy(in.phone) /\ ~Truthy(in.twitter_id) /\ ~Truthy(in.unique_external_id)
    THEN "no-requester"
    ELSE IF Truthy(in.phone) /\ ~Truthy(in.email) /\ ~Truthy(in.name)
    THEN "name-required"
    ELSE "ok"

\* input.type === 'custom_dropdown' && (!input.choices || input.choices.length === 0)
\* An optional array argument is "absent", "empty" ([]) or "set".
CreateFieldRejectsNever(in) == FALSE
CreateFieldRejects(in) == in.type = "custom_dropdown" /\ in.choices # "set"

\* The results a handler returns.
ToolValidation(message) == [isError |-> TRUE, kind |-> "validation", message |-> message]
ToolFailure(e) == [isError |-> TRUE, kind |-> "error", error |-> e]
ToolSuccess(v) == [isError |-> FALSE, kind |-> "json", value |-> v]
ResourceText(e) == [mimeType |-> "text/plain", error |-> e]
ResourceJson(v) == [mimeType |-> "application/json", value |-> v]

\* try { ... await freshdesk.method(...) ... } catch (error) { ... } of a handler.
Wrap(l, r) ==
    CASE l = "tool" ->
             IF r.kind = "throw" THEN Return(ToolFailure(r.error))
             ELSE Return(ToolSuccess(r.value))
      [] l = "resource" ->
             IF r.kind = "throw" THEN Return(ResourceText(r.error))
             ELSE Return(ResourceJson(r.value))
      [] OTHER -> r

\* const { page, per_page, status_sort, ...restFilters } = input;
\* const filters = { ...restFilters, status: status_sort }
ToolFilters(keys) ==
    (keys \ {"status_sort"}) \cup (IF "status_sort" \in keys THEN {"status"} ELSE {})

\* The arguments of a gateway method.
ClientArgs(id, payload, page, perPage) ==
    [id |-> id, payload |-> payload, page |-> page, perPage |-> perPage]

\* The gateway method behind an invocation and the arguments it receives.
Method(l, o) == IF l = "tool" THEN ClientOf(o) ELSE o
Args(l, o, in) ==
    IF l # "tool" THEN in
    ELSE CASE o \in UpdateTools -> ClientArgs(in.id, ToolUpdatePayload(o, in.keys), 0, 0)
           [] o \in ListTools ->
                  IF "filters" \in DOMAIN in
                  THEN [id |-> 0, payload |-> {}, page |-> in.page, perPage |-> in.per_page,
                        filters |-> ToolFilters(in.filters)]
                  ELSE ClientArgs(0, {}, in.page, in.per_page)
           [] o = "create-ticket" -> ClientArgs(0, {k \in DOMAIN in : in[k] # "absent"}, 0, 0)
           [] o = "delete-ticket" -> ClientArgs(in.ticket_id, {}, 0, 0)
           [] o \in PlainTools -> ClientArgs(in.id, in.keys \ {"ticket_id"}, 0, 0)
           [] o \in CreateFieldTools ->
                  ClientArgs(0, {k \in DOMAIN in : in[k] # "absent"}, 0, 0)

-----------------------------------------------------------------------------
(* The remote side: what it may answer.                                    *)

ErrorMap == [email |-> <<"is invalid">>]
NonArrayBodies ==
    {Unparsable, JNull, EmptyRecord,
     JObject([message |-> "Validation failed"]),
     JObject([message |-> "Validation failed", errors |-> ErrorMap]),
     JObject([message |-> "", errors |-> ErrorMap]),
     JObject([errors |-> ErrorMap])}

NoContent == Http(204, Unparsable, NoHeader)
Replies(arrays) ==
    {NetFail, NoContent} \cup
    {Http(s, b, NoHeader) : s \in {200, 404, 500}, b \in NonArrayBodies \cup arrays}

\* The URLs the remote side puts in Link headers: a base and query pairs,
\* each pair with the number its value denotes (if it denotes one).
AbsBase == <<"h", "t", "t", "p", "s", ":", "/", "/", "x", "/", "t">>
RelBase == <<"/", "t">>
Pair(name, value, numeric, num) ==
    [name |-> name, value |-> value, numeric |-> numeric, num |-> num]
PagePair(value, num) == Pair(PageKey, value, TRUE, num)
PerPagePair == Pair(<<"p", "e", "r", "_", "p", "a", "g", "e">>, <<"3", "0">>, TRUE, 30)
TagsPair == Pair(<<"t", "a", "g", "s">>, <<"a", ",", "b">>, FALSE, 0)
Url(base, query) == [base |-> base, query |-> query]

UrlPage3 == Url(AbsBase, <<PagePair(<<"3">>, 3)>>)
UrlPage1 == Url(AbsBase, <<PagePair(<<"1">>, 1)>>)
UrlPerPage == Url(AbsBase, <<PerPagePair, PagePair(<<"2">>, 2)>>)
UrlTags == Url(AbsBase, <<TagsPair, PagePair(<<"3">>, 3)>>)
UrlNoQuery == Url(AbsBase, <<>>)
UrlPageX == Url(AbsBase, <<Pair(PageKey, <<"x">>, FALSE, 0)>>)
UrlRelative == Url(RelBase, <<PagePair(<<"3">>, 3)>>)
UrlPage0 == Url(AbsBase, <<PagePair(<<"0">>, 0)>>)
LinkUrls == {UrlPage3, UrlPage1, UrlPerPage, UrlTags, UrlNoQuery, UrlPageX, UrlRelative}

LinkEntry(url, rel) == [url |-> url, rel |-> rel]
LinkEntries == {LinkEntry(u, r) : u \in LinkUrls, r \in {RelNext, RelPrev, RelLast}}

\* How the remote side writes a URL, an entry and a Link header.
FormatUrl(u) ==
    IF u.query = <<>> THEN u.base
    ELSE u.base \o <<"?">> \o
         Join([i \in 1..Len(u.query) |-> u.query[i].name \o <<"=">> \o u.query[i].value],
              <<"&">>)
FormatEntry(e) == <<"<">> \o FormatUrl(e.url) \o <<">", ";", " ">> \o RelOpen \o e.rel \o <<"\"">>
FormatLinks(entries) ==
    Join([i \in 1..Len(entries) |-> FormatEntry(entries[i])], <<",", " ">>)

\* The headers handed to parseLinkHeader on its own, with the entries they were
\* written from.
SeqsUpTo(S, n) == UNION {[1..k -> S] : k \in 0..n}
LinkHeaders ==
    {[entries |-> <<>>, header |-> NoHeader]} \cup
    {[entries |-> es, header |-> HeaderOf(FormatLinks(es))] : es \in SeqsUpTo(LinkEntries, MaxLinks)}

\* The Link headers of the replies to the list operations.
ListHeaders ==
    {NoHeader, HeaderOf(<<>>)} \cup
    {HeaderOf(FormatLinks(es)) :
        es \in {<<LinkEntry(UrlPage3, RelNext)>>,
                <<LinkEntry(UrlPage1, RelPrev)>>,
                <<LinkEntry(UrlPage3, RelNext), LinkEntry(UrlPage1, RelPrev)>>,
                <<LinkEntry(UrlPerPage, RelLast)>>,
                <<LinkEntry(UrlPage0, RelNext)>>,
                <<LinkEntry(UrlTags, RelNext), LinkEntry(UrlPageX, RelPrev)>>}}

GenericArrays == {JArray(<<>>), JArray(<<1>>)}
SingleReplies(o) ==
    IF o \in ListOps
    THEN Replies(GenericArrays) \cup {Http(200, JArray(<<1>>), h) : h \in ListHeaders}
    ELSE Replies(GenericArrays)

\* The solution hierarchy of the remote side: categories 1..n, the folders
\* 10c+1 .. 10c+k of category c, the articles of folder f.
CategoryList(n) == [i \in 1..n |-> i]
FolderList(c, k) == [j \in 1..k |-> 10 * c + j]
ArticlesOf(f) == [i \in 1..(f % 3) |-> 100 * f + i]

\* The replies to a request of a traversal: one of each kind of failure
\* (network, non-2xx with a JSON error, 2xx with an unparsable body,
\* no content), or a 2xx array.
TraversalReplies(arrays) ==
    {NetFail,
     Http(500, JObject([message |-> "Validation failed", errors |-> ErrorMap]), NoHeader),
     Http(200, Unparsable, NoHeader),
     NoContent} \cup
    {Http(200, b, NoHeader) : b \in arrays}
CategoryReplies == TraversalReplies({JArray(CategoryList(n)) : n \in 0..MaxCats})
FolderReplies(c) == TraversalReplies({JArray(FolderList(c, k)) : k \in 0..MaxFolders})
\* The articles request of a folder succeeds, or fails in one way: with a
\* non-2xx JSON error for a folder of even id, with no content for an odd one.
ArticleReplies(f) ==
    {IF f % 2 = 0
     THEN Http(500, JObject([message |-> "Validation failed", errors |-> ErrorMap]), NoHeader)
     ELSE NoContent,
     Http(200, JArray(ArticlesOf(f)), NoHeader)}

-----------------------------------------------------------------------------
(* Arguments the callers pass.                                             *)

UpdateFields(o) ==
    CASE o = "updateTicket" -> {"subject", "status"}
      [] o = "updateTicketField" -> {"label", "choices"}
      [] o = "updateContact" -> {"name", "tags"}
      [] o = "updateContactField" -> {"label", "position"}

Pages == (0 - 1)..MaxPage
PerPages ==
    ((0 - PerPageSlack)..(1 + PerPageSlack)) \cup {30} \cup
    ((MaxPerPage - PerPageSlack)..(MaxPerPage + PerPageSlack))

\* The schema of the list tools admits page >= 1 and 1 <= per_page <= 100.
ToolPages == {p \in Pages : p >= 1}
ToolPerPages == {n \in PerPages : n >= 1 /\ n <= MaxPerPage}

OptionalString == {"absent", "empty", "set"}
OptionalValue == {"absent", "set"}
CreateTicketInputs ==
    [email : OptionalValue, requester_id : OptionalValue,
     facebook_id : OptionalString, phone : OptionalString,
     twitter_id : OptionalString, unique_external_id : OptionalString,
     name : OptionalString]

\* The keys of the input of a forwarding tool, as its schema requires them.
PlainToolKeys(tool) ==
    CASE tool \in {"create-ticket-reply", "create-ticket-note"} -> {"ticket_id", "body"}
      [] tool = "create-contact" -> {"name"}
      [] OTHER -> {}

\* The field types the schema text of the create-field tools names.
FieldTypes == {"custom_text", "custom_dropdown", "custom_checkbox"}
OptionalList == {"absent", "empty", "set"}
CreateFieldInputs == [label : {"set"}, type : FieldTypes, choices : OptionalList]

\* The path names of the URIs read through the article resource: "/" and a
\* trailing segment.
ArticleSegments ==
    {<<"4", "2">>, <<"1", "2", "a">>, <<"a", "b">>, <<>>, <<"-", "5">>}
ArticlePathnames == {<<"/">> \o seg : seg \in ArticleSegments}

\* The keys of FreshdeskTicketFilters a caller of listTickets may set, and
\* the filter and sort keys of the schema of list-tickets.
ClientFilterKeys ==
    MappedFilters \cup {"custom_fields", "unique_external_id", "query", "filter"}
ToolFilterKeys ==
    {"filter", "requester_id", "email", "unique_external_id", "company_id",
     "updated_since", "created_at", "due_by", "updated_at", "status_sort", "query"}
FilterSets(keys) == {S \in SUBSET keys : Cardinality(S) <= MaxFilters}

NoInput == [none |-> TRUE]
NoTrav ==
    [phase |-> "none", categories |-> <<>>, ci |-> 0, folders |-> <<>>, fi |-> 0,
     allArticles |-> <<>>, result |-> <<>>]
NoHdr == [entries |-> <<>>, header |-> NoHeader]
\* The local state of an invocation that has not started.
NoLocals ==
    [pc |-> "idle", layer |-> "none", op |-> "none", input |-> NoInput, sent |-> <<>>,
     served |-> <<>>, outcome |-> NoOutcome, trav |-> NoTrav]

-----------------------------------------------------------------------------
(* The invocations.                                                        *)

Init ==
    /\ pc = "idle"
    /\ layer = "none"
    /\ op = "none"
    /\ input = NoInput
    /\ sent = <<>>
    /\ served = <<>>
    /\ outcome = NoOutcome
    /\ trav = NoTrav
    /\ hdr = NoHdr
    /\ cursor = NoPagination
    /\ apiKey \in Keys
    /\ domain \in Domains
    /\ baseUrl = BaseUrlOf(domain)
    /\ parked = NoLocals

\* The invocation of l/o with input in starts: it ends at once with `early`
\* (a pre-flight rejection) or issues the request of its gateway method.
Begin(l, o, in, early) ==
    /\ layer' = l
    /\ op' = o
    /\ input' = in
    /\ served' = <<>>
    /\ IF early.kind # "none"
       THEN /\ pc' = "done"
            /\ sent' = <<>>
            /\ outcome' = early
       ELSE /\ pc' = "wait"
            /\ sent' = <<RequestOf(Method(l, o), Args(l, o, in))>>
            /\ outcome' = NoOutcome
    /\ UNCHANGED <<trav, hdr, cursor, apiKey, domain, baseUrl, parked>>

\* A method that only forwards to request.
CallPlain(o) ==
    /\ pc = "idle"
    /\ Begin("client", o, ClientArgs(1, {}, 0, 0), NoOutcome)

CallGetCategories ==
    /\ pc = "idle"
    /\ Begin("client", "getCategories", ClientArgs(0, {}, 0, 0), NoOutcome)

CallDeleteTicket ==
    /\ pc = "idle"
    /\ Begin("client", "deleteTicket", ClientArgs(1, {}, 0, 0), NoOutcome)

\* updateTicket, updateTicketField, updateContact, updateContactField
CallUpdate(o, payload) ==
    /\ pc = "idle"
    /\ Begin("client", o, ClientArgs(1, payload, 0, 0),
             IF UpdateRejects(payload) THEN Throw(EmptyPayload) ELSE NoOutcome)

\* listTickets, listContacts
CallList(o, page, perPage) ==
    /\ pc = "idle"
    /\ Begin("client", o, ClientArgs(0, {}, page, perPage), NoOutcome)

\* The handlers of the update tools.
ToolUpdate(tool, fields) ==
    LET in == [id |-> 1, keys |-> {IdKey(tool)} \cup fields]
        payload == ToolUpdatePayload(tool, in.keys)
    IN  /\ pc = "idle"
        /\ Begin("tool", tool, in,
                 IF Cardinality(payload) = 0
                 THEN Return(ToolValidation("At least one field must be provided to update."))
                 ELSE IF UpdateRejects(payload)
                 THEN Wrap("tool", Throw(EmptyPayload))
                 ELSE NoOutcome)

\* The handler of create-ticket.
ToolCreateTicket(in) ==
    LET check == CreateTicketCheck(in)
    IN  /\ pc = "idle"
        /\ Begin("tool", "create-ticket", in,
                 IF check = "no-requester"
                 THEN Return(ToolValidation("At least one requester identifier must be provided."))
                 ELSE IF check = "name-required"
                 THEN Return(ToolValidation("Name is required when using phone without an email address."))
                 ELSE NoOutcome)

ToolList(tool, page, perPage) ==
    /\ pc = "idle"
    /\ Begin("tool", tool, [page |-> page, per_page |-> perPage], NoOutcome)

\* listTickets with filters, and the list-tickets tool with filters.
CallListTickets(filters) ==
    /\ pc = "idle"
    /\ Begin("client", "listTickets",
             [id |-> 0, payload |-> {}, page |-> 1, perPage |-> 30, filters |-> filters],
             NoOutcome)

ToolListTickets(keys) ==
    /\ pc = "idle"
    /\ Begin("tool", "list-tickets", [page |-> 1, per_page |-> 30, filters |-> keys],
             NoOutcome)

\* The caller of a list method carries the nextPage of the cursor it got
\* into its next call of the same method.
CallListNext ==
    /\ pc = "done"
    /\ layer = "client"
    /\ op \in ListOps
    /\ outcome.kind = "return"
    /\ "nextPage" \in DOMAIN outcome.value.pagination
    /\ Begin("client", op,
             [id |-> 0, payload |-> {}, page |-> outcome.value.pagination.nextPage,
              perPage |-> input.perPage,
              cursorPage |-> outcome.value.pagination.nextPage],
             NoOutcome)

ToolDeleteTicket ==
    /\ pc = "idle"
    /\ Begin("tool", "delete-ticket", [ticket_id |-> 1], NoOutcome)

\* The handlers of create-ticket-field and create-contact-field.
ToolCreateField(tool, in) ==
    /\ pc = "idle"
    /\ Begin("tool", tool, in,
             IF CreateFieldRejects(in)
             THEN Return(ToolValidation("Choices are required for dropdown fields."))
             ELSE NoOutcome)

\* The article resource: the last part of uri.pathname.split('/') goes through
\* parseInt; NaN is thrown as 'Invalid article ID' inside the try block.
InvalidArticleId == MakeError("Error", 0, "Invalid article ID", <<>>, "")
ArticleIdOf(pathname) ==
    LET pathParts == Split(pathname, "/")
    IN  pathParts[Len(pathParts)]

ResourceArticle(pathname) ==
    LET id == ArticleIdOf(pathname)
        articleId == IF ParseIntIsNaN(id) THEN 0 ELSE ParseIntValue(id)
    IN  /\ pc = "idle"
        /\ Begin("resource", "getArticle",
                 [id |-> articleId, payload |-> {}, page |-> 0, perPage |-> 0,
                  pathname |-> pathname],
                 IF ParseIntIsNaN(id) THEN Wrap("resource", Throw(InvalidArticleId))
                 ELSE NoOutcome)

\* The handlers that forward their input to one gateway method.
ToolPlain(tool) ==
    /\ pc = "idle"
    /\ Begin("tool", tool, [id |-> 1, keys |-> PlainToolKeys(tool)], NoOutcome)

FetchSettlesRetry ==
    /\ pc = "wait"
    /\ trav.phase = "none"
    /\ \E reply \in SingleReplies(Method(layer, op)) :
           /\ served' = Append(served, reply)
           /\ IF (reply.net \/ ~IsOk(reply.status)) /\ Len(sent) < 2
              THEN /\ sent' = Append(sent, sent[1])
                   /\ pc' = "wait"
                   /\ outcome' = outcome
              ELSE /\ sent' = sent
                   /\ pc' = "done"
                   /\ outcome' = Wrap(layer, ClientFinish(Method(layer, op),
                                                          Args(layer, op, input), reply))
    /\ UNCHANGED <<layer, op, input, trav, hdr, cursor, apiKey, domain, baseUrl, parked>>

\* The fetch of a single-request invocation settles with reply.
FetchSettles ==
    /\ pc = "wait"
    /\ trav.phase = "none"
    /\ \E reply \in SingleReplies(Method(layer, op)) :
           /\ served' = Append(served, reply)
           /\ outcome' = Wrap(layer, ClientFinish(Method(layer, op),
                                                  Args(layer, op, input), reply))
    /\ pc' = "done"
    /\ UNCHANGED <<layer, op, input, sent, trav, hdr, cursor, apiKey, domain, baseUrl, parked>>

\* The caller takes the result; the next invocation shares no state with it.
Reset ==
    /\ pc = "done"
    /\ pc' = "idle"
    /\ layer' = "none"
    /\ op' = "none"
    /\ input' = NoInput
    /\ sent' = <<>>
    /\ served' = <<>>
    /\ outcome' = NoOutcome
    /\ trav' = NoTrav
    /\ UNCHANGED <<hdr, cursor, apiKey, domain, baseUrl, parked>>

-----------------------------------------------------------------------------
(* getAllArticles: categories, then the folders of each category, then the *)
(* articles of each folder, one request at a time.                         *)

\* allArticles declared inside the loop over the categories.
EnterCategoryFreshList(t, ci) ==
    IF ci > Len(t.categories) THEN [t EXCEPT !.phase = "return", !.ci = ci]
    ELSE [t EXCEPT !.phase = "folders", !.ci = ci, !.folders = <<>>, !.fi = 0,
                   !.allArticles = <<>>]

\* `for (const category of categories)` reaches index ci.
EnterCategory(t, ci) ==
    IF ci > Len(t.categories) THEN [t EXCEPT !.phase = "return", !.ci = ci]
    ELSE [t EXCEPT !.phase = "folders", !.ci = ci, !.folders = <<>>, !.fi = 0]

\* `for (const folder of folders)` reaches index fi.
EnterFolder(t, fi) ==
    IF fi > Len(t.folders) THEN EnterCategory(t, t.ci + 1)
    ELSE [t EXCEPT !.phase = "articles", !.fi = fi]

\* The request the traversal awaits next.
TravRequest(t) ==
    IF t.phase = "folders" THEN Request("getFolders", t.categories[t.ci], NoQuery)
    ELSE Request("getArticles", t.folders[t.fi], NoQuery)

\* The articles of the next folder are requested while those of this one
\* are still awaited.
ProceedPrefetching(t) ==
    /\ trav' = t
    /\ IF t.phase = "return"
       THEN /\ pc' = "done"
            /\ sent' = sent
            /\ outcome' = Wrap(layer, Return(JArray(t.allArticles)))
       ELSE /\ pc' = "wait"
            /\ sent' = IF t.phase = "articles" /\ t.fi < Len(t.folders)
                       THEN sent \o <<TravRequest(t),
                                      Request("getArticles", t.folders[t.fi + 1], NoQuery)>>
                       ELSE Append(sent, TravRequest(t))
            /\ outcome' = NoOutcome

\* The traversal goes on from t: it returns, or issues its next request.
Proceed(t) ==
    /\ trav' = t
    /\ IF t.phase = "return"
       THEN /\ pc' = "done"
            /\ sent' = sent
            /\ outcome' = Wrap(layer, Return(JArray(t.allArticles)))
       ELSE /\ pc' = "wait"
            /\ sent' = Append(sent, TravRequest(t))
            /\ outcome' = NoOutcome

\* The traversal ends with an exception that getAllArticles does not catch.
Abort(e) ==
    /\ trav' = [trav EXCEPT !.phase = "thrown"]
    /\ pc' = "done"
    /\ sent' = sent
    /\ outcome' = Wrap(layer, Throw(e))

\* getAllArticles is called directly, or by the all-articles resource.
CallGetAllArticles(l) ==
    /\ pc = "idle"
    /\ layer' = l
    /\ op' = "getAllArticles"
    /\ input' = ClientArgs(0, {}, 0, 0)
    /\ pc' = "wait"
    /\ sent' = <<Request("getCategories", 0, NoQuery)>>
    /\ served' = <<>>
    /\ outcome' = NoOutcome
    /\ trav' = [NoTrav EXCEPT !.phase = "categories"]
    /\ UNCHANGED <<hdr, cursor, apiKey, domain, baseUrl, parked>>

\* The categories request made with request, its failure not caught.
CategoriesSettlePropagating ==
    /\ pc = "wait"
    /\ trav.phase = "categories"
    /\ \E reply \in CategoryReplies :
           /\ served' = Append(served, reply)
           /\ IF request(reply).kind = "throw" THEN Abort(request(reply).error)
              ELSE Proceed(EnterCategory(
                       [trav EXCEPT !.categories = getCategories(reply).value.items], 1))
    /\ UNCHANGED <<layer, op, input, hdr, cursor, apiKey, domain, baseUrl, parked>>

\* const categories = await this.getCategories()
CategoriesSettle ==
    /\ pc = "wait"
    /\ trav.phase = "categories"
    /\ \E reply \in CategoryReplies :
           /\ served' = Append(served, reply)
           /\ Proceed(EnterCategory(
                  [trav EXCEPT !.categories = getCategories(reply).value.items], 1))
    /\ UNCHANGED <<layer, op, input, hdr, cursor, apiKey, domain, baseUrl, parked>>

\* const folders = await this.getFolders(category.id): outside any try block.
FoldersContinue(reply) ==
    LET r == request(reply)
    IN  IF r.kind = "throw" THEN Abort(r.error)
        ELSE IF r.value.kind # "array" THEN Abort(NotIterable)
        ELSE Proceed(EnterFolder([trav EXCEPT !.folders = r.value.items], 1))

FoldersSettle ==
    /\ pc = "wait"
    /\ trav.phase = "folders"
    /\ \E reply \in FolderReplies(trav.categories[trav.ci]) :
           /\ served' = Append(served, reply)
           /\ FoldersContinue(reply)
    /\ UNCHANGED <<layer, op, input, hdr, cursor, apiKey, domain, baseUrl, parked>>

\* try { const articles = await this.getArticles(folder.id);
\*       allArticles.push(...articles) } catch (error) { console.error(...) }
ArticlesContinueUncaught(reply) ==
    LET r == request(reply)
    IN  IF r.kind = "throw" THEN Abort(r.error)
        ELSE IF r.value.kind # "array" THEN Abort(NotIterable)
        ELSE Proceed(EnterFolder([trav EXCEPT !.allArticles = @ \o r.value.items],
                                 trav.fi + 1))

ArticlesContinue(reply) ==
    LET r == request(reply)
    IN  IF r.kind = "throw" \/ r.value.kind # "array"
        THEN Proceed(EnterFolder(trav, trav.fi + 1))
        ELSE Proceed(EnterFolder([trav EXCEPT !.allArticles = @ \o r.value.items],
                                 trav.fi + 1))

ArticlesSettle ==
    /\ pc = "wait"
    /\ trav.phase = "articles"
    /\ \E reply \in ArticleReplies(trav.folders[trav.fi]) :
           /\ served' = Append(served, reply)
           /\ ArticlesContinue(reply)
    /\ UNCHANGED <<layer, op, input, hdr, cursor, apiKey, domain, baseUrl, parked>>

-----------------------------------------------------------------------------
(* The get-categories tool: categories, then the folders of each category, *)
(* each folder fetch inside its own try/catch.                             *)

InvalidCategories ==
    MakeError("Error", 0, "Invalid categories response: categories is not an array",
              <<>>, "")

\* result.push({ category, folders }) and, in the catch,
\* result.push({ category, folders: [], error: `Failed to fetch folders: ...` })
FoldersEntry(category, folders) ==
    [category |-> category, folders |-> folders, error |-> <<>>]
FailedEntry(category, e) ==
    [category |-> category, folders |-> JArray(<<>>), error |-> <<e>>]

\* `for (const category of categories)` of the handler reaches index ci.
ToolEnterCategory(t, ci) ==
    IF ci > Len(t.categories) THEN [t EXCEPT !.phase = "return", !.ci = ci]
    ELSE [t EXCEPT !.phase = "toolFolders", !.ci = ci]

\* The handler goes on from t: it returns result, or fetches the next folders.
ToolProceed(t) ==
    /\ trav' = t
    /\ IF t.phase = "return"
       THEN /\ pc' = "done"
            /\ sent' = sent
            /\ outcome' = Wrap("tool", Return(JArray(t.result)))
       ELSE /\ pc' = "wait"
            /\ sent' = Append(sent, Request("getFolders", t.categories[t.ci], NoQuery))
            /\ outcome' = NoOutcome

\* The outer catch of the handler.
ToolAbort(e) ==
    /\ trav' = [trav EXCEPT !.phase = "thrown"]
    /\ pc' = "done"
    /\ sent' = sent
    /\ outcome' = Wrap("tool", Throw(e))

ToolGetCategories ==
    /\ pc = "idle"
    /\ layer' = "tool"
    /\ op' = "get-categories"
    /\ input' = NoInput
    /\ pc' = "wait"
    /\ sent' = <<Request("getCategories", 0, NoQuery)>>
    /\ served' = <<>>
    /\ outcome' = NoOutcome
    /\ trav' = [NoTrav EXCEPT !.phase = "toolCategories"]
    /\ UNCHANGED <<hdr, cursor, apiKey, domain, baseUrl, parked>>

\* The categories fetched with request: failures and non-arrays get through.
ToolCategoriesSettleUnguarded ==
    /\ pc = "wait"
    /\ trav.phase = "toolCategories"
    /\ \E reply \in CategoryReplies :
           LET r == request(reply)
           IN  /\ served' = Append(served, reply)
               /\ IF r.kind = "throw" THEN ToolAbort(r.error)
                  ELSE IF r.value.kind # "array" THEN ToolAbort(InvalidCategories)
                  ELSE ToolProceed(ToolEnterCategory(
                           [trav EXCEPT !.categories = r.value.items], 1))
    /\ UNCHANGED <<layer, op, input, hdr, cursor, apiKey, domain, baseUrl, parked>>

\* const categories = await freshdesk.getCategories(), then the array check.
ToolCategoriesSettle ==
    /\ pc = "wait"
    /\ trav.phase = "toolCategories"
    /\ \E reply \in CategoryReplies :
           LET categories == getCategories(reply).value
           IN  /\ served' = Append(served, reply)
               /\ IF categories.kind # "array" THEN ToolAbort(InvalidCategories)
                  ELSE ToolProceed(ToolEnterCategory(
                           [trav EXCEPT !.categories = categories.items], 1))
    /\ UNCHANGED <<layer, op, input, hdr, cursor, apiKey, domain, baseUrl, parked>>

\* try { const folders = await freshdesk.getFolders(category.id); ... }
\* catch (error) { ... }
ToolFoldersContinueUncaught(reply) ==
    LET r == request(reply)
        category == trav.categories[trav.ci]
    IN  IF r.kind = "throw" THEN ToolAbort(r.error)
        ELSE ToolProceed(ToolEnterCategory(
                 [trav EXCEPT !.result = Append(@, FoldersEntry(category, r.value))],
                 trav.ci + 1))

ToolFoldersContinue(reply) ==
    LET r == request(reply)
        category == trav.categories[trav.ci]
        entry == IF r.kind = "throw" THEN FailedEntry(category, r.error)
                 ELSE FoldersEntry(category, r.value)
    IN  ToolProceed(ToolEnterCategory([trav EXCEPT !.result = Append(@, entry)],
                                      trav.ci + 1))

ToolFoldersSettle ==
    /\ pc = "wait"
    /\ trav.phase = "toolFolders"
    /\ \E reply \in FolderReplies(trav.categories[trav.ci]) :
           /\ served' = Append(served, reply)
           /\ ToolFoldersContinue(reply)
    /\ UNCHANGED <<layer, op, input, hdr, cursor, apiKey, domain, baseUrl, parked>>

-----------------------------------------------------------------------------
(* The specification of the gateway.                                       *)

Subsets(S) == SUBSET S

Next ==
    \/ \E o \in PlainOps : CallPlain(o)
    \/ CallGetCategories
    \/ CallDeleteTicket
    \/ \E o \in UpdateOps : \E payload \in Subsets(UpdateFields(o)) : CallUpdate(o, payload)
    \/ \E o \in ListOps : \E page \in Pages : \E perPage \in PerPages : CallList(o, page, perPage)
    \/ \E tool \in UpdateTools : \E fields \in Subsets(UpdateFields(ClientOf(tool))) :
           ToolUpdate(tool, fields)
    \/ \E in \in CreateTicketInputs : ToolCreateTicket(in)
    \/ \E tool \in ListTools : \E page \in ToolPages : \E perPage \in ToolPerPages :
           ToolList(tool, page, perPage)
    \/ \E filters \in FilterSets(ClientFilterKeys) : CallListTickets(filters)
    \/ \E keys \in FilterSets(ToolFilterKeys) : ToolListTickets(keys)
    \/ CallListNext
    \/ ToolDeleteTicket
    \/ \E tool \in PlainTools : ToolPlain(tool)
    \/ \E pathname \in ArticlePathnames : ResourceArticle(pathname)
    \/ \E tool \in CreateFieldTools : \E in \in CreateFieldInputs : ToolCreateField(tool, in)
    \/ FetchSettles
    \/ \E l \in {"client", "resource"} : CallGetAllArticles(l)
    \/ CategoriesSettle
    \/ FoldersSettle
    \/ ArticlesSettle
    \/ ToolGetCategories
    \/ ToolCategoriesSettle
    \/ ToolFoldersSettle
    \/ Reset

Spec == Init /\ [][Next]_vars

-----------------------------------------------------------------------------
(* parseLinkHeader on its own: a header is drawn, the function is applied. *)

InitLink ==
    /\ pc = "idle"
    /\ layer = "none"
    /\ op = "parseLinkHeader"
    /\ input = NoInput
    /\ sent = <<>>
    /\ served = <<>>
    /\ outcome = NoOutcome
    /\ trav = NoTrav
    /\ hdr \in LinkHeaders
    /\ cursor = NoPagination
    /\ apiKey = <<>>
    /\ domain = <<>>
    /\ baseUrl = <<>>
    /\ parked = NoLocals

ParseLink ==
    /\ pc = "idle"
    /\ pc' = "done"
    /\ cursor' = parseLinkHeader(hdr.header)
    /\ UNCHANGED <<layer, op, input, sent, served, outcome, trav, hdr, apiKey, domain, baseUrl, parked>>

NextLink == ParseLink

SpecLink == InitLink /\ [][NextLink]_vars

-----------------------------------------------------------------------------
(* requestRaw on its own: it is called for an endpoint with a headers      *)
(* option, issues its fetch and returns the Response.                      *)

\* The headers a caller of requestRaw may put in options.headers.
OptionHeaderValue(k) ==
    CASE k = "Authorization" -> <<"B", "e", "a", "r", "e", "r", " ", "t">>
      [] k = "ContentType" -> "text/plain"
      [] OTHER -> "1"
OptionHeaders ==
    {[k \in S |-> OptionHeaderValue(k)] : S \in SUBSET {"Authorization", "ContentType", "XRequestId"}}

\* The methods whose endpoint and method requestRaw is called with.
RawEndpoints == {"getTicket", "getCategories", "deleteTicket", "createTicket"}

\* return response
Response(reply) ==
    [kind |-> "response", obj |-> NoKeys, items |-> <<>>, status |-> reply.status,
     body |-> reply.body]
requestRaw(reply) == IF reply.net THEN Throw(FetchError) ELSE Return(Response(reply))

InitRaw ==
    /\ pc = "idle"
    /\ layer = "none"
    /\ op = "requestRaw"
    /\ input \in [endpoint : RawEndpoints, headers : OptionHeaders]
    /\ sent = <<>>
    /\ served = <<>>
    /\ outcome = NoOutcome
    /\ trav = NoTrav
    /\ hdr = NoHdr
    /\ cursor = NoPagination
    /\ apiKey \in Keys
    /\ domain \in Domains
    /\ baseUrl = BaseUrlOf(domain)
    /\ parked = NoLocals

\* const response = await fetch(url, { ...options, headers: { ... } })
CallRequestRaw ==
    /\ pc = "idle"
    /\ pc' = "wait"
    /\ sent' = <<[Request(input.endpoint, 1, NoQuery)
                     EXCEPT !.headers = Headers(apiKey, input.headers)]>>
    /\ UNCHANGED <<layer, op, input, served, outcome, trav, hdr, cursor, apiKey, domain,
                   baseUrl, parked>>

RawSettles ==
    /\ pc = "wait"
    /\ \E reply \in {NetFail, NoContent, Http(500, Unparsable, NoHeader)} :
           /\ served' = <<reply>>
           /\ outcome' = requestRaw(reply)
    /\ pc' = "done"
    /\ UNCHANGED <<layer, op, input, sent, trav, hdr, cursor, apiKey, domain, baseUrl, parked>>

NextRaw == CallRequestRaw \/ RawSettles

SpecRaw == InitRaw /\ [][NextRaw]_vars

-----------------------------------------------------------------------------
(* Two invocations in flight on one FreshdeskAPI instance.  JavaScript runs *)
(* one continuation at a time: while an invocation awaits its fetch        *)
(* (pc = "wait") the caller may start or resume another one.  The local    *)
(* variables of the suspended invocation are kept in parked; apiKey,       *)
(* domain and baseUrl are the fields of the instance both read.            *)

\* The two invocations together issue at most this many requests.
MaxConcRequests == 5

Locals ==
    [pc |-> pc, layer |-> layer, op |-> op, input |-> input, sent |-> sent,
     served |-> served, outcome |-> outcome, trav |-> trav]

\* allArticles kept in one place for both invocations instead of in the
\* closure of each.
SwitchSharedArticles ==
    /\ pc # "idle" \/ parked.pc # "idle"
    /\ parked' = Locals
    /\ pc' = parked.pc
    /\ layer' = parked.layer
    /\ op' = parked.op
    /\ input' = parked.input
    /\ sent' = parked.sent
    /\ served' = parked.served
    /\ outcome' = parked.outcome
    /\ trav' = [parked.trav EXCEPT !.allArticles = trav.allArticles]
    /\ UNCHANGED <<hdr, cursor, apiKey, domain, baseUrl>>

\* The running invocation is suspended at its await (or has ended, or has
\* not begun) and the other one runs.
Switch ==
    /\ pc # "idle" \/ parked.pc # "idle"
    /\ parked' = Locals
    /\ pc' = parked.pc
    /\ layer' = parked.layer
    /\ op' = parked.op
    /\ input' = parked.input
    /\ sent' = parked.sent
    /\ served' = parked.served
    /\ outcome' = parked.outcome
    /\ trav' = parked.trav
    /\ UNCHANGED <<hdr, cursor, apiKey, domain, baseUrl>>

\* The single-request methods invoked next to getAllArticles.
ConcOps == {"getTicket", "createContact"}

Budget == Len(sent) + Len(parked.sent) < MaxConcRequests

NextConc ==
    \/ Budget /\ CallGetAllArticles("client")
    \/ Budget /\ \E o \in ConcOps : CallPlain(o)
    \/ FetchSettles
    \/ Budget /\ CategoriesSettle
    \/ Budget /\ FoldersSettle
    \/ Budget /\ ArticlesSettle
    \/ Switch
    \/ Reset

SpecConc == Init /\ [][NextConc]_vars

-----------------------------------------------------------------------------
(* Properties.                                                             *)

\* What the gateway method itself returned or threw, seen through a handler.
ClientOutcome ==
    IF layer = "tool"
    THEN IF outcome.value.kind = "error" THEN Throw(outcome.value.error)
         ELSE IF outcome.value.kind = "json" THEN Return(outcome.value.value)
         ELSE NoOutcome
    ELSE outcome

\* The invocation was turned down before any request: a thrown error at the
\* gateway, a result flagged isError at a tool.
RejectedLocally ==
    /\ pc = "done"
    /\ sent = <<>>
    /\ served = <<>>
    /\ IF layer = "tool" THEN outcome.kind = "return" /\ outcome.value.isError
       ELSE outcome.kind = "throw"

\* A reply with a success status whose body is a JSON array.
SuccessArray(reply) ==
    /\ ~reply.net
    /\ reply.status >= 200
    /\ reply.status <= 299
    /\ reply.status # 204
    /\ reply.body.kind = "array"

NonSuccess(reply) == ~reply.net /\ (reply.status < 200 \/ reply.status > 299)

\* The indices of the requests of this invocation sent to the endpoint of o.
RequestsOf(o) == {i \in 1..Len(sent) : sent[i].path = Path(o)}
Answered(o) == {i \in RequestsOf(o) : i <= Len(served)}

Range(f) == {f[i] : i \in DOMAIN f}

(***************************************************************************)
(* C1: an update operation whose change-set, once the identifier is taken  *)
(* out, has no field is rejected locally and issues no network request.    *)
(***************************************************************************)
EmptyChangeSet ==
    \/ layer = "client" /\ op \in UpdateOps /\ input.payload = {}
    \/ layer = "tool" /\ op \in UpdateTools /\ input.keys \subseteq {IdKey(op)}

C1_EmptyUpdateRejectedLocally == EmptyChangeSet => RejectedLocally

C1_Witness ==
    /\ EmptyChangeSet
    /\ layer = "tool"
    /\ op = "update-ticket"
    /\ pc = "done"
    /\ Len(sent) = 0

(***************************************************************************)
(* C2: create-ticket fails locally, with no request, when none of the six  *)
(* requester identifiers is present, and when phone is present while email *)
(* and name are both absent; with email alone it passes validation and     *)
(* issues exactly one POST /tickets.                                       *)
(***************************************************************************)
Present(v) == v # "absent"
RequesterKeys ==
    {"email", "requester_id", "facebook_id", "phone", "twitter_id", "unique_external_id"}

RECURSIVE ArticlesServed(_)
ArticlesServed(n) ==
    IF n = 0 THEN <<>>
    ELSE ArticlesServed(n - 1) \o
         (IF sent[n].path = "/solutions/folders/:id/articles" /\ SuccessArray(served[n])
          THEN served[n].body.items ELSE <<>>)

FolderFetchesSucceed ==
    \A i \in Answered("getFolders") : SuccessArray(served[i])

FoldersListed ==
    UNION {Range(served[i].body.items) : i \in Answered("getFolders")}

C3_AllArticlesOfSucceedingFolders ==
    (op = "getAllArticles" /\ pc = "done" /\ FolderFetchesSucceed) =>
        /\ IF layer = "resource"
           THEN outcome = Return(ResourceJson(JArray(ArticlesServed(Len(served)))))
           ELSE outcome = Return(JArray(ArticlesServed(Len(served))))
        /\ {sent[i].id : i \in RequestsOf("getArticles")} = FoldersListed

C3_Witness ==
    /\ op = "getAllArticles"
    /\ layer = "client"
    /\ pc = "done"
    /\ FolderFetchesSucceed
    /\ outcome.kind = "return"
    /\ outcome.value.items # <<>>
    /\ \E i \in Answered("getFolders") : served[i].body.items = <<>>
    /\ \E i \in Answered("getArticles") : ~SuccessArray(served[i])
    /\ \E i \in Answered("getArticles") : SuccessArray(served[i])

(***************************************************************************)
(* C4: in getAllArticles a failure fetching the folders of one category is *)
(* caught: the operation does not fail, the remaining categories are still *)
(* traversed and the articles of the other branches are returned.          *)
(***************************************************************************)
FolderFetchFailed ==
    \E i \in Answered("getFolders") : served[i].net \/ NonSuccess(served[i])

C4_FolderFailureDoesNotAbort ==
    (op = "getAllArticles" /\ layer = "client" /\ pc = "done" /\ FolderFetchFailed) =>
        /\ outcome.kind = "return"
        /\ {sent[i].id : i \in RequestsOf("getFolders")} = Range(trav.categories)

(***************************************************************************)
(* C5: getCategories never fails outward: whatever the request ends in, it *)
(* returns a sequence, which is empty unless the reply is a success whose  *)
(* body is a sequence, and then is that body.                              *)
(***************************************************************************)
C5_GetCategoriesNeverFails ==
    (op = "getCategories" /\ layer = "client" /\ pc = "done") =>
        /\ outcome.kind = "return"
        /\ outcome.value.kind = "array"
        /\ IF SuccessArray(served[1]) THEN outcome.value = served[1].body
           ELSE outcome.value.items = <<>>

C5_Witness ==
    /\ op = "getCategories"
    /\ layer = "client"
    /\ pc = "done"
    /\ served[1].status = 204
    /\ outcome.kind = "return"
    /\ outcome.value.items = <<>>

(***************************************************************************)
(* C6: the request of listTickets and listContacts carries                 *)
(* page = max(1, page) and per_page = min(max(1, perPage), 100), so never  *)
(* page < 1 nor per_page outside 1..100.                                   *)
(***************************************************************************)
ListInvocation ==
    \/ layer = "client" /\ op \in ListOps
    \/ layer = "tool" /\ op \in ListTools

CallerPage == input.page
CallerPerPage == IF layer = "tool" THEN input.per_page ELSE input.perPage

C6_ListRequestClamped ==
    (ListInvocation /\ pc # "idle") =>
        /\ Len(sent) = 1
        /\ sent[1].query.page = (IF CallerPage < 1 THEN 1 ELSE CallerPage)
        /\ sent[1].query.per_page =
               (IF CallerPerPage < 1 THEN 1
                ELSE IF CallerPerPage > 100 THEN 100 ELSE CallerPerPage)
        /\ sent[1].query.page >= 1
        /\ sent[1].query.per_page \in 1..100

C6_Witness ==
    /\ layer = "client"
    /\ op = "listContacts"
    /\ pc = "wait"
    /\ input.page < 1
    /\ input.perPage > 100
    /\ sent[1].query = [page |-> 1, per_page |-> 100]

(***************************************************************************)
(* C7: for a Link header of comma-separated <url>; rel="next"|"prev"       *)
(* entries, parseLinkHeader returns nextPage equal to the page parameter   *)
(* of the rel="next" URL and prevPage equal to that of the rel="prev" URL; *)
(* a relation the header does not carry is absent from the cursor.         *)
(***************************************************************************)
\* The page number the remote side wrote into a URL.
HasPage(u) == \E i \in 1..Len(u.query) : u.query[i].name = PageKey /\ u.query[i].numeric
PageOf(u) == u.query[Min({i \in 1..Len(u.query) : u.query[i].name = PageKey})].num

\* Entries of the form the header contract names: an absolute URL that carries
\* a page number, with relation next or prev, one entry per relation.
EntriesFor(rel) == {i \in 1..Len(hdr.entries) : hdr.entries[i].rel = rel}
ContractHeader ==
    /\ hdr.header.present
    /\ hdr.entries # <<>>
    /\ \A i \in 1..Len(hdr.entries) :
           /\ hdr.entries[i].rel \in {RelNext, RelPrev}
           /\ hdr.entries[i].url.base = AbsBase
           /\ HasPage(hdr.entries[i].url)
    /\ Cardinality(EntriesFor(RelNext)) <= 1
    /\ Cardinality(EntriesFor(RelPrev)) <= 1

CursorMatches(key, rel) ==
    IF EntriesFor(rel) = {} THEN key \notin DOMAIN cursor
    ELSE /\ key \in DOMAIN cursor
         /\ \A i \in EntriesFor(rel) : cursor[key] = PageOf(hdr.entries[i].url)

C7_CursorFromLinkHeader ==
    (op = "parseLinkHeader" /\ pc = "done" /\ ContractHeader) =>
        /\ CursorMatches("nextPage", RelNext)
        /\ CursorMatches("prevPage", RelPrev)

\* The same statement for headers none of whose URLs contains a comma.
CommaFree == \A i \in 1..Len(hdr.header.text) : hdr.header.text[i] = "," =>
                 /\ i < Len(hdr.header.text)
                 /\ hdr.header.text[i + 1] = " "
                 /\ hdr.header.text[i - 1] = "\""
CursorFromCommaFreeLinkHeader ==
    (op = "parseLinkHeader" /\ pc = "done" /\ ContractHeader /\ CommaFree) =>
        /\ CursorMatches("nextPage", RelNext)
        /\ CursorMatches("prevPage", RelPrev)

(***************************************************************************)
(* C8: in the result of listTickets and listContacts, pagination.nextPage  *)
(* is present only if the Link header of the response contained a          *)
(* rel="next" entry and pagination.prevPage only if it contained a         *)
(* rel="prev" entry; without a Link header both are absent.                *)
(***************************************************************************)
RelText(rel) == RelOpen \o rel \o <<"\"">>

C8_CursorOnlyFromHeader ==
    (ListInvocation /\ pc = "done" /\ ClientOutcome.kind = "return") =>
        LET pagination == ClientOutcome.value.pagination
            link == served[1].link
        IN  /\ "nextPage" \in DOMAIN pagination =>
                   link.present /\ Includes(link.text, RelText(RelNext))
            /\ "prevPage" \in DOMAIN pagination =>
                   link.present /\ Includes(link.text, RelText(RelPrev))

C8_Witness ==
    /\ ListInvocation
    /\ pc = "done"
    /\ ClientOutcome.kind = "return"
    /\ "nextPage" \in DOMAIN ClientOutcome.value.pagination
    /\ "prevPage" \notin DOMAIN ClientOutcome.value.pagination
    /\ served[1].link.present

(***************************************************************************)
(* C9: for every gateway operation, a non-2xx response whose JSON body has *)
(* a message and a field-level errors map produces a failure whose message *)
(* contains both the message text and the serialized errors map.           *)
(***************************************************************************)
ValidationReply(reply) ==
    /\ NonSuccess(reply)
    /\ reply.body.kind = "object"
    /\ {"message", "errors"} \subseteq DOMAIN reply.body.obj

\* The failure carries the message text and the errors of the reply.
FailureCarries(r, reply) ==
    /\ r.kind = "throw"
    /\ reply.body.obj.message # "" => r.error.text = reply.body.obj.message
    /\ r.error.details = <<reply.body.obj.errors>>

C9_ValidationFailureEveryOperation ==
    (layer = "client" /\ op \in ClientOps /\ pc = "done") =>
        \A i \in 1..Len(served) :
            ValidationReply(served[i]) => FailureCarries(outcome, served[i])

\* As amended: getCategories and the getAllArticles aggregate, which swallow
\* failures of their requests, are left out; every other operation propagates.
Swallowing == {"getCategories", "getAllArticles"}

C9_ValidationFailurePropagated ==
    (layer = "client" /\ op \in ClientOps \ Swallowing /\ pc = "done") =>
        \A i \in 1..Len(served) :
            ValidationReply(served[i]) => FailureCarries(outcome, served[i])

C9_Witness ==
    /\ layer = "client"
    /\ op = "updateContactField"
    /\ pc = "done"
    /\ Len(served) = 1
    /\ ValidationReply(served[1])
    /\ served[1].body.obj.message = "Validation failed"
    /\ outcome.kind = "throw"
    /\ outcome.error.text = "Validation failed"
    /\ outcome.error.details = <<ErrorMap>>

(***************************************************************************)
(* C10: for every gateway operation other than getCategories, a non-2xx    *)
(* status ends the operation in a failure, never in a success value,       *)
(* whether or not the response body parses as JSON.                        *)
(***************************************************************************)
C10_NonSuccessFailsEveryOperation ==
    (layer = "client" /\ op \in ClientOps \ {"getCategories"} /\ pc = "done") =>
        \A i \in 1..Len(served) : NonSuccess(served[i]) => outcome.kind = "throw"

\* As amended: also without the getAllArticles aggregate.
C10_NonSuccessFailsUnlessSwallowed ==
    (layer = "client" /\ op \in ClientOps \ Swallowing /\ pc = "done") =>
        \A i \in 1..Len(served) : NonSuccess(served[i]) => outcome.kind = "throw"

C10_Witness ==
    /\ layer = "client"
    /\ op = "getTicket"
    /\ pc = "done"
    /\ Len(served) = 1
    /\ served[1].status = 500
    /\ served[1].body.kind = "unparsable"
    /\ outcome.kind = "throw"

(***************************************************************************)
(* C11: for every gateway operation, a reply with a success status other   *)
(* than 204 whose body does not parse as JSON ends the operation in a      *)
(* failure, not in a success value.                                        *)
(***************************************************************************)
UnparsableSuccess(reply) ==
    /\ ~reply.net
    /\ IsOk(reply.status)
    /\ reply.status # 204
    /\ reply.body.kind = "unparsable"

C11_UnparsableSuccessFails ==
    (layer = "client" /\ op \in ClientOps /\ pc = "done") =>
        \A i \in 1..Len(served) :
            UnparsableSuccess(served[i]) => outcome.kind = "throw"

\* The operations that read the body themselves do fail on such a reply.
UnparsableSuccessFailsInLists ==
    (layer = "client" /\ op \in ListOps /\ pc = "done") =>
        \A i \in 1..Len(served) :
            UnparsableSuccess(served[i]) => outcome.kind = "throw"

(***************************************************************************)
(* C12: every tool handler returns a result and never throws; when a       *)
(* pre-flight validation fails or the gateway operation fails (network     *)
(* failure, non-2xx status, unparsable body) the result has isError =      *)
(* TRUE; a result without isError is returned only when the gateway        *)
(* operation succeeded.                                                    *)
(***************************************************************************)
TransportFailure(reply) == reply.net \/ NonSuccess(reply)
GatewayFailure(reply) == TransportFailure(reply) \/ UnparsableSuccess(reply)

C12_ToolFailuresFlagged ==
    (layer = "tool" /\ pc = "done") =>
        /\ outcome.kind = "return"
        /\ outcome.value.kind = "validation" => outcome.value.isError
        /\ (\E i \in 1..Len(served) : GatewayFailure(served[i]))
               => outcome.value.isError

\* What does hold: no handler throws, a validation failure is flagged, and
\* outside get-categories a network failure or non-2xx status is flagged.
ToolTransportFailuresFlagged ==
    (layer = "tool" /\ pc = "done") =>
        /\ outcome.kind = "return"
        /\ outcome.value.kind = "validation" => outcome.value.isError
        /\ (op # "get-categories" /\ \E i \in 1..Len(served) : TransportFailure(served[i]))
               => outcome.value.isError

(***************************************************************************)
(* C13: every outbound request of every gateway operation carries an       *)
(* Authorization header equal to "Basic " followed by the base64 encoding  *)
(* of "<apiKey>:X" for the key of the instance, and a Content-Type header  *)
(* of application/json.                                                    *)
(***************************************************************************)
\* The credentials of the two keys, as base64 encodes them.
BasicOf(key) ==
    IF key = <<"k", "1">>
    THEN <<"B", "a", "s", "i", "c", " ", "a", "z", "E", "6", "W", "A", "=", "=">>
    ELSE <<"B", "a", "s", "i", "c", " ", "Y", "W", "J", "j", "O", "l", "g", "=">>

C13_RequestsAuthenticated ==
    \A i \in 1..Len(sent) :
        /\ sent[i].headers.Authorization = BasicOf(apiKey)
        /\ sent[i].headers.ContentType = "application/json"

C13_Witness ==
    /\ op = "getAllArticles"
    /\ Len(sent) >= 3
    /\ apiKey = <<"a", "b", "c">>
    /\ \A i \in 1..Len(sent) : sent[i].headers.Authorization = BasicOf(apiKey)

(***************************************************************************)
(* C14: the API key is never echoed in any output: no tool result,         *)
(* resource result or failure message carries the key or the credential    *)
(* made of it, and of an outbound request only the Authorization header    *)
(* depends on the key.                                                     *)
(***************************************************************************)
\* The texts made of the key.
KeyTexts ==
    {Str(apiKey), Str(apiKey \o <<":", "X">>), Str(Auth(apiKey)),
     Str(Headers(apiKey, NoHeaders).Authorization)}

\* The texts a failure is made of, and the texts of a JSON value.
ErrorTexts(e) == {e.name, e.text, e.note}
JsonTexts(v) ==
    IF v.kind = "object" /\ "message" \in DOMAIN v.obj THEN {v.obj.message} ELSE {}

\* The texts of what an invocation returned or threw.
OutputTexts ==
    IF outcome.kind = "throw" THEN ErrorTexts(outcome.error)
    ELSE IF outcome.kind = "none" THEN {}
    ELSE IF layer = "client" THEN
         (IF outcome.value.kind = "object" THEN JsonTexts(outcome.value) ELSE {})
    ELSE IF "error" \in DOMAIN outcome.value THEN ErrorTexts(outcome.value.error)
    ELSE IF "message" \in DOMAIN outcome.value THEN {outcome.value.message}
    ELSE IF outcome.value.value.kind = "object" THEN JsonTexts(outcome.value.value)
    ELSE {}

\* The texts of a request outside its Authorization header.
RequestTexts(r) == {r.method, r.path, r.headers.ContentType}

ArticleRead == layer = "resource" /\ op = "getArticle" /\ pc # "idle"

\* The text after the last "/" of the path name.
TrailingSegment(pathname) ==
    LET slashes == {i \in 1..Len(pathname) : pathname[i] = "/"}
        last == IF slashes = {} THEN 0 ELSE CHOOSE i \in slashes : \A j \in slashes : j <= i
    IN  SubSeq(pathname, last + 1, Len(pathname))

NumericId(seg) == seg # <<>> /\ \A i \in 1..Len(seg) : seg[i] \in Digits

AnsweredInvalidId ==
    /\ pc = "done"
    /\ Len(sent) = 0
    /\ outcome.kind = "return"
    /\ outcome.value.mimeType = "text/plain"
    /\ outcome.value.error.text = "Invalid article ID"

C15_NonNumericIdRejectedLocally ==
    (ArticleRead /\ ~NumericId(TrailingSegment(input.pathname))) => AnsweredInvalidId

\* What the handler does enforce: a segment that does not start with an
\* optionally signed decimal digit is rejected locally.
NoLeadingDigitRejectedLocally ==
    LET seg == TrailingSegment(input.pathname)
        unsigned == IF seg # <<>> /\ seg[1] \in {"-", "+"} THEN Tail(seg) ELSE seg
    IN  (ArticleRead /\ (unsigned = <<>> \/ unsigned[1] \notin Digits)) => AnsweredInvalidId

(***************************************************************************)
(* C16: the result of the get-categories tool has exactly one entry per    *)
(* category returned by getCategories, in the same order; a category whose *)
(* folder fetch fails contributes an entry with an empty folder list and   *)
(* an error note, and the folders of all later categories are still        *)
(* fetched.                                                                *)
(***************************************************************************)
\* The categories getCategories returned for the first reply.
CategoriesReturned ==
    IF SuccessArray(served[1]) THEN served[1].body.items ELSE <<>>

C16_OneEntryPerCategory ==
    (layer = "tool" /\ op = "get-categories" /\ pc = "done") =>
        LET categories == CategoriesReturned
            result == outcome.value.value.items
        IN  /\ outcome.kind = "return"
            /\ ~outcome.value.isError
            /\ Len(result) = Len(categories)
            /\ Len(sent) = 1 + Len(categories)
            /\ \A i \in 1..Len(categories) :
                   /\ result[i].category = categories[i]
                   /\ sent[i + 1].path = Path("getFolders")
                   /\ sent[i + 1].id = categories[i]
                   /\ TransportFailure(served[i + 1]) =>
                          /\ result[i].folders = JArray(<<>>)
                          /\ result[i].error # <<>>
                   /\ SuccessArray(served[i + 1]) =>
                          /\ result[i].folders = served[i + 1].body
                          /\ result[i].error = <<>>

C16_Witness ==
    /\ layer = "tool"
    /\ op = "get-categories"
    /\ pc = "done"
    /\ Len(served) = 3
    /\ TransportFailure(served[2])
    /\ SuccessArray(served[3])
    /\ served[3].body.items # <<>>
    /\ Len(outcome.value.value.items) = 2
    /\ outcome.value.value.items[1].error # <<>>

(***************************************************************************)
(* C17: create-ticket-field and create-contact-field reject locally, with  *)
(* a validation error and no request, a dropdown type whose choice list is *)
(* absent or empty; with a non-empty choice list exactly one POST is       *)
(* issued.                                                                 *)
(***************************************************************************)
DropdownType(type) == type = "custom_dropdown"

C17_DropdownNeedsChoices ==
    (layer = "tool" /\ op \in CreateFieldTools /\ pc # "idle" /\ DropdownType(input.type)) =>
        IF input.choices \in {"absent", "empty"}
        THEN /\ pc = "done"
             /\ Len(sent) = 0
             /\ outcome.kind = "return"
             /\ outcome.value.kind = "validation"
             /\ outcome.value.isError
        ELSE /\ Len(sent) = 1
             /\ sent[1].method = "POST"
             /\ sent[1].path = Path(ClientOf(op))

C17_Witness ==
    /\ layer = "tool"
    /\ op = "create-contact-field"
    /\ input.type = "custom_dropdown"
    /\ input.choices = "empty"
    /\ pc = "done"
    /\ Len(sent) = 0
    /\ outcome.value.isError

(***************************************************************************)
(* C18: in a listing of tickets each filter of the accepted set (requester *)
(* id, email, external id, company id, status, priority, source, group,    *)
(* agent, tags, date thresholds, custom-field pairs, raw advanced query)   *)
(* is a query parameter of the request if and only if the caller supplied  *)
(* it.                                                                     *)
(***************************************************************************)
AcceptedFilters ==
    {"requester_id", "email", "unique_external_id", "company_id", "status",
     "priority", "source", "group_id", "agent_id", "tags", "created_since",
     "updated_since", "due_since", "custom_fields", "query"}

FilteredListing ==
    /\ \/ layer = "client" /\ op = "listTickets"
       \/ layer = "tool" /\ op = "list-tickets"
    /\ "filters" \in DOMAIN input
    /\ pc # "idle"

\* The caller supplied filter f.
Supplied(f) == f \in input.filters

\* Filter f is a parameter of the request.
IsParameter(f, query) ==
    IF f = "custom_fields" THEN CustomFieldParam \in DOMAIN query
    ELSE f \in DOMAIN query

C18_FiltersMappedIffSupplied ==
    FilteredListing =>
        /\ Len(sent) = 1
        /\ \A f \in AcceptedFilters : Supplied(f) <=> IsParameter(f, sent[1].query)

\* The same for the filters listTickets does map; the tool has no status
\* filter and passes its status_sort in that place.
MappedFiltersIffSupplied ==
    FilteredListing =>
        /\ Len(sent) = 1
        /\ \A f \in MappedFilters \cup {"custom_fields"} :
               IF layer = "tool" /\ f = "status"
               THEN ("status_sort" \in input.filters) <=> IsParameter(f, sent[1].query)
               ELSE Supplied(f) <=> IsParameter(f, sent[1].query)

(***************************************************************************)
(* C19: the body of a create or update request of the field family is the  *)
(* payload wrapped under the single key ticket_field (ticket fields) or    *)
(* contact_field (contact fields); the body of every other create or       *)
(* update request (tickets, contacts, replies, notes) is the bare payload. *)
(***************************************************************************)
Writes(r) == r.method \in {"POST", "PUT"}
TicketFieldPaths == {"/ticket_fields", "/ticket_fields/:id"}
ContactFieldPaths == {"/contact_fields", "/contact_fields/:id"}

\* The payload the caller handed to the gateway method.
GivenPayload == JsonObject(Args(layer, op, input).payload)

C19_FieldBodiesWrapped ==
    \A i \in 1..Len(sent) :
        LET r == sent[i]
        IN  Writes(r) =>
                /\ r.body.present
                /\ r.body.json =
                       IF r.path \in TicketFieldPaths THEN [ticket_field |-> GivenPayload]
                       ELSE IF r.path \in ContactFieldPaths
                       THEN [contact_field |-> GivenPayload]
                       ELSE GivenPayload

C19_Witness ==
    /\ layer = "tool"
    /\ op = "create-contact-field"
    /\ pc = "done"
    /\ Len(sent) = 1
    /\ DOMAIN sent[1].body.json = {"contact_field"}
    /\ DOMAIN sent[1].body.json.contact_field = {"label", "type", "choices"}

\* A bare body of the other families.
BareBodySent ==
    /\ op = "create-ticket-note"
    /\ Len(sent) = 1
    /\ sent[1].body = JsonBody(JsonObject({"body"}))

(***************************************************************************)
(* C20: a reply with status 204 makes the body-returning request yield an  *)
(* empty record without failing, and delete-ticket then reports success    *)
(* with no body; delete-ticket reports success only when the remote reply  *)
(* had a success status, and reports a failure (isError) for every non-2xx *)
(* reply and every network failure.                                        *)
(***************************************************************************)
\* The methods that return what request returns.
BodyReturning == PlainOps \cup UpdateOps

DeleteTool == layer = "tool" /\ op = "delete-ticket" /\ pc = "done" /\ Len(served) = 1

C20_NoContentIsSuccess ==
    /\ (layer = "client" /\ op \in BodyReturning /\ pc = "done" /\ Len(served) = 1
            /\ ~served[1].net /\ served[1].status = 204)
           => outcome = Return(EmptyRecord)
    /\ DeleteTool =>
           /\ outcome.kind = "return"
           /\ (~served[1].net /\ served[1].status = 204)
                  => outcome.value = ToolSuccess(Void)
           /\ ~outcome.value.isError => (~served[1].net /\ IsOk(served[1].status))
           /\ (served[1].net \/ NonSuccess(served[1])) => outcome.value.isError

C20_Witness ==
    /\ DeleteTool
    /\ served[1] = NoContent
    /\ sent[1].method = "DELETE"
    /\ outcome = Return(ToolSuccess(Void))

\* A deletion that failed remotely is reported as a failure.
DeleteFailureReported ==
    /\ DeleteTool
    /\ served[1].status = 404
    /\ outcome.value.isError

(***************************************************************************)
(* C21: the layer never retries.  Each invocation of a single-resource     *)
(* gateway operation (every operation except getAllArticles and the        *)
(* get-categories tool) issues at most one network request, also when that *)
(* request fails with a network error or a non-2xx status.                 *)
(***************************************************************************)
MultiRequest == {"getAllArticles", "get-categories"}

C21_AtMostOnce ==
    (op \notin MultiRequest /\ op # "none") =>
        /\ Len(sent) <= 1
        /\ Len(served) <= Len(sent)
        /\ (pc = "wait") => (Len(sent) = 1 /\ Len(served) = 0)

\* Once a request has been answered, no further request follows in the
\* same invocation.
C21_NoRequestAfterReply ==
    [][(op \notin MultiRequest /\ Len(served) > 0) => sent' = sent \/ sent' = <<>>]_vars

C21_Witness ==
    /\ layer = "client"
    /\ op = "updateContact"
    /\ pc = "done"
    /\ Len(sent) = 1
    /\ Len(served) = 1
    /\ served[1].net
    /\ outcome.kind = "throw"

\* The same after a non-2xx reply to a tool's request.
FailedOnceInTool ==
    /\ layer = "tool"
    /\ op = "create-ticket-reply"
    /\ pc = "done"
    /\ Len(sent) = 1
    /\ served = <<Http(500, Unparsable, NoHeader)>>

(***************************************************************************)
(* C22: concurrent invocations of gateway operations are independent.  For *)
(* every interleaving of two invocations in flight at their network        *)
(* suspension points, each returns the result it returns when run alone    *)
(* against the same remote replies, and no operation changes the API key,  *)
(* the domain or the base URL of the instance.                             *)
(***************************************************************************)
\* What the invocation with local state c returns when it runs alone and
\* receives the replies c.served.
Alone(c) ==
    IF c.op = "getAllArticles" THEN Wrap(c.layer, getAllArticles(c.served))
    ELSE Wrap(c.layer, ClientFinish(Method(c.layer, c.op), Args(c.layer, c.op, c.input),
                                    c.served[1]))

AsAlone(c) == (c.pc = "done" /\ Len(c.served) > 0) => c.outcome = Alone(c)

InstanceUnchanged == apiKey' = apiKey /\ domain' = domain /\ baseUrl' = baseUrl

C22_ConcurrentIndependent ==
    /\ [](AsAlone(Locals) /\ AsAlone(parked))
    /\ [][InstanceUnchanged]_vars

\* One traversal has returned articles while another one, started before it
\* ended, is still in flight.
C22_Witness ==
    /\ pc = "done"
    /\ op = "getAllArticles"
    /\ outcome.kind = "return"
    /\ Len(outcome.value.items) > 0
    /\ parked.pc = "wait"
    /\ parked.op = "getAllArticles"
    /\ Len(parked.served) >= 1

\* The traversal taken step by step returns what getAllArticles gives as a
\* function of the replies.
SequentialAsAlone == (op = "getAllArticles") => AsAlone(Locals)

(***************************************************************************)
(* C23: getAllArticles issues its requests strictly one at a time.  At no  *)
(* point are two of its requests in flight; the categories request         *)
(* completes before any folders request starts, the folders request of a   *)
(* category completes before the article requests of its folders start,    *)
(* and all article requests of one category complete before the folders    *)
(* request of the next category starts.                                    *)
(***************************************************************************)
IsCategoriesRequest(r) == r.path = Path("getCategories")
IsFoldersRequest(r) == r.path = Path("getFolders")
IsArticlesRequest(r) == r.path = Path("getArticles")

\* The category of a folder of the remote hierarchy.
CategoryOfFolder(f) == f \div 10

\* A request is in flight from the moment it is issued until it is answered.
InFlight == Len(sent) - Len(served)

TraversalOrdered ==
    /\ \A i \in 1..Len(sent) : IsCategoriesRequest(sent[i]) <=> i = 1
    /\ \A i, j \in 1..Len(sent) :
           /\ (IsFoldersRequest(sent[i]) /\ IsFoldersRequest(sent[j]) /\ i < j)
                  => sent[i].id < sent[j].id
           /\ (IsFoldersRequest(sent[i]) /\ IsArticlesRequest(sent[j]))
                  => (i < j <=> sent[i].id <= CategoryOfFolder(sent[j].id))

\* A request is issued only when every earlier one has been answered.
IssuedAfterReplies ==
    (op' = "getAllArticles" /\ Len(sent') > Len(sent)) =>
        /\ Len(sent') = Len(sent) + 1
        /\ Len(served') = Len(sent)

C23_OneRequestAtATime ==
    /\ []((op = "getAllArticles") =>
              /\ InFlight \in {0, 1}
              /\ InFlight = 1 <=> pc = "wait"
              /\ TraversalOrdered)
    /\ [][IssuedAfterReplies]_vars

C23_Witness ==
    /\ op = "getAllArticles"
    /\ pc = "done"
    /\ outcome.kind = "return"
    /\ \E i, j, k \in 1..Len(sent) :
           /\ i < j /\ j < k
           /\ IsArticlesRequest(sent[i]) /\ CategoryOfFolder(sent[i].id) = 1
           /\ IsFoldersRequest(sent[j]) /\ sent[j].id = 2
           /\ IsArticlesRequest(sent[k]) /\ CategoryOfFolder(sent[k].id) = 2

(***************************************************************************)
(* C24: caller-supplied headers cannot remove or replace the mandatory     *)
(* headers.  For requestRaw called with any extra header mapping,          *)
(* including one that itself has an Authorization or a Content-Type key,   *)
(* the request sent has Authorization equal to the Basic credential built  *)
(* from the API key and Content-Type equal to application/json.            *)
(***************************************************************************)
RawRequestSent == op = "requestRaw" /\ Len(sent) = 1

C24_MandatoryHeadersKept ==
    RawRequestSent =>
        /\ sent[1].headers.Authorization = BasicOf(apiKey)
        /\ sent[1].headers.ContentType = "application/json"

\* What requestRaw does: the mandatory headers are never removed, they are
\* sent unless options.headers has the same key, and every header of
\* options.headers is sent as given.
MandatoryHeadersUnlessOverridden ==
    RawRequestSent =>
        /\ {"Authorization", "ContentType"} \subseteq DOMAIN sent[1].headers
        /\ "Authorization" \notin DOMAIN input.headers
               => sent[1].headers.Authorization = BasicOf(apiKey)
        /\ "ContentType" \notin DOMAIN input.headers
               => sent[1].headers.ContentType = "application/json"
        /\ \A k \in DOMAIN input.headers : sent[1].headers[k] = input.headers[k]

(***************************************************************************)
(* C25: for a non-2xx reply whose body is not parseable JSON, every        *)
(* gateway operation fails with a message that consists of the bare status *)
(* line (status code and status text) and nothing else; for a non-2xx      *)
(* reply whose body parses but has no message field, the status text is    *)
(* used in place of the message.                                           *)
(***************************************************************************)
\* The error of r is the status line of reply and nothing else.
BareStatusLine(r, reply) ==
    /\ r.kind = "throw"
    /\ r.error.status = reply.status
    /\ r.error.text = StatusText(reply.status)
    /\ r.error.details = <<>>
    /\ r.error.note = ""

HasNoMessage(body) == body.kind # "unparsable" /\ Field(body, "message") = <<>>

C25_BareStatusLineFallback ==
    (layer = "client" /\ op \in ClientOps /\ pc = "done") =>
        \A i \in 1..Len(served) :
            /\ (NonSuccess(served[i]) /\ served[i].body.kind = "unparsable")
                   => BareStatusLine(outcome, served[i])
            /\ (NonSuccess(served[i]) /\ HasNoMessage(served[i].body))
                   => (outcome.kind = "throw"
                       /\ outcome.error.text = StatusText(served[i].status))

\* listTickets and listContacts, which read the body themselves, do fall
\* back to the bare status line.
BareStatusLineInLists ==
    (layer = "client" /\ op \in ListOps /\ pc = "done" /\ Len(served) = 1
         /\ NonSuccess(served[1]) /\ served[1].body.kind = "unparsable")
        => BareStatusLine(outcome, served[1])

\* Every operation that propagates failures uses the status text when the
\* parsed body has no message.
StatusTextWithoutMessage ==
    (layer = "client" /\ op \in ClientOps \ Swallowing /\ pc = "done" /\ Len(served) = 1
         /\ NonSuccess(served[1]) /\ HasNoMessage(served[1].body))
        => (outcome.kind = "throw" /\ outcome.error.text = StatusText(served[1].status))

\* The operations built on request add a note to the status line.
StatusLineWithNote ==
    /\ layer = "client"
    /\ op = "getTicket"
    /\ pc = "done"
    /\ served = <<Http(404, Unparsable, NoHeader)>>
    /\ outcome.kind = "throw"
    /\ outcome.error.text = "Not Found"
    /\ outcome.error.note = "Failed to parse response body."

(***************************************************************************)
(* C26: when the categories fetch fails (network failure or non-2xx),      *)
(* getAllArticles issues no folders and no articles request and returns an *)
(* empty list, so the all-articles resource answers with an empty JSON     *)
(* list as a successful read and not with an error text.                   *)
(***************************************************************************)
CategoriesFetchFailed ==
    /\ op = "getAllArticles"
    /\ Len(served) >= 1
    /\ served[1].net \/ NonSuccess(served[1])

C26_CategoriesFailureGivesEmptyList ==
    CategoriesFetchFailed =>
        /\ pc = "done"
        /\ Len(sent) = 1
        /\ IsCategoriesRequest(sent[1])
        /\ outcome = IF layer = "resource"
                     THEN Return(ResourceJson(JArray(<<>>)))
                     ELSE Return(JArray(<<>>))

C26_Witness ==
    /\ CategoriesFetchFailed
    /\ layer = "resource"
    /\ served[1].net
    /\ outcome.kind = "return"
    /\ outcome.value.mimeType = "application/json"
    /\ outcome.value.value = JArray(<<>>)

\* The same answer as for a helpdesk that has no categories.
NoCategoriesGivesEmptyList ==
    /\ op = "getAllArticles"
    /\ layer = "resource"
    /\ served = <<Http(200, JArray(<<>>), NoHeader)>>
    /\ outcome = Return(ResourceJson(JArray(<<>>)))

(***************************************************************************)
(* C27: the get-categories tool never returns a result flagged isError.    *)
(* For every outcome of the categories request and of each per-category    *)
(* folders request it returns an unflagged JSON list, empty when the        *)
(* categories request failed; its invalid-categories branch and its outer  *)
(* failure branch are never taken.                                         *)
(***************************************************************************)
GetCategoriesTool == layer = "tool" /\ op = "get-categories"

C27_GetCategoriesNeverFlagged ==
    GetCategoriesTool =>
        /\ trav.phase # "thrown"
        /\ (pc = "done") =>
               /\ outcome.kind = "return"
               /\ ~outcome.value.isError
               /\ outcome.value.kind = "json"
               /\ outcome.value.value.kind = "array"
               /\ outcome # Return(ToolFailure(InvalidCategories))
               /\ (served[1].net \/ NonSuccess(served[1]))
                      => (outcome = Return(ToolSuccess(JArray(<<>>))) /\ Len(sent) = 1)

C27_Witness ==
    /\ GetCategoriesTool
    /\ pc = "done"
    /\ served = <<Http(500, JObject([message |-> "Validation failed", errors |-> ErrorMap]),
                       NoHeader)>>
    /\ outcome = Return(ToolSuccess(JArray(<<>>)))

\* Also with every folders request failing the list is not flagged.
AllFolderFetchesFailed ==
    /\ GetCategoriesTool
    /\ pc = "done"
    /\ Len(served) = 3
    /\ served[2].net
    /\ served[3].net
    /\ ~outcome.value.isError
    /\ Len(outcome.value.value.items) = 2

(***************************************************************************)
(* C28: the list returned by getAllArticles is the order-preserving        *)
(* concatenation of the article lists of the successfully fetched folders: *)
(* articles appear in category order, then in folder order within a        *)
(* category, then in the order returned for the folder; no article is      *)
(* dropped, duplicated or reordered.                                       *)
(***************************************************************************)
\* The concatenation, from request i on, of the lists the remote side gave
\* in answer to the requests that satisfy Which.
RECURSIVE Fetched(_, _)
Fetched(Which(_), i) ==
    IF i > Len(served) THEN <<>>
    ELSE (IF Which(sent[i]) /\ SuccessArray(served[i]) THEN served[i].body.items ELSE <<>>)
             \o Fetched(Which, i + 1)

\* The identifiers the requests that satisfy Which were made for, in order.
RECURSIVE RequestedIds(_, _)
RequestedIds(Which(_), i) ==
    IF i > Len(sent) THEN <<>>
    ELSE (IF Which(sent[i]) THEN <<sent[i].id>> ELSE <<>>) \o RequestedIds(Which, i + 1)

AllArticlesReturned == op = "getAllArticles" /\ pc = "done" /\ outcome.kind = "return"

ReturnedList ==
    IF layer = "resource" THEN outcome.value.value.items ELSE outcome.value.items

CursorEchoesRequest ==
    (ListInvocation /\ pc = "done" /\ ClientOutcome.kind = "return") =>
        LET pagination == ClientOutcome.value.pagination
        IN  /\ pagination.currentPage = sent[1].query.page
            /\ pagination.perPage = sent[1].query.per_page
            /\ pagination.currentPage >= 1
            /\ pagination.perPage \in 1..MaxPerPage

\* The invocation was made with the nextPage of a returned cursor.
CalledWithNextPage == "cursorPage" \in DOMAIN input /\ pc # "idle"

C29_CursorEchoesRequestAndRoundTrips ==
    /\ CursorEchoesRequest
    /\ CalledWithNextPage => sent[1].query.page = input.cursorPage

\* As amended: the round trip holds for a returned nextPage of at least 1.
C29_CursorEchoesRequestRoundTripsFromOne ==
    /\ CursorEchoesRequest
    /\ (CalledWithNextPage /\ input.cursorPage >= 1) => sent[1].query.page = input.cursorPage

C29_Witness ==
    /\ layer = "client"
    /\ op = "listTickets"
    /\ pc = "done"
    /\ CalledWithNextPage
    /\ input.cursorPage = 3
    /\ input.perPage > MaxPerPage
    /\ sent[1].query.page = 3
    /\ outcome.kind = "return"
    /\ outcome.value.pagination.currentPage = 3
    /\ outcome.value.pagination.perPage = MaxPerPage

\* A cursor whose nextPage is 0, and the call made with it asking for page 1.
NextPageZeroAsksForPageOne ==
    /\ CalledWithNextPage
    /\ input.cursorPage = 0
    /\ sent[1].query.page = 1

(***************************************************************************)
(* C30: parseLinkHeader is total and never makes a list operation fail.    *)
(* For every header value (absent, empty, entries not of the form          *)
(* <url>; rel="...", relations other than next and prev, unparsable URLs,  *)
(* URLs with a missing or non-numeric page parameter) it returns a cursor  *)
(* without raising; such entries leave the cursor unchanged, and when      *)
(* several entries carry the same relation the last valid one determines   *)
(* the value.                                                              *)
(***************************************************************************)
\* An entry the remote side wrote with relation next or prev, a URL that
\* parses and a numeric page parameter.
ValidEntry(e) ==
    /\ e.rel \in {RelNext, RelPrev}
    /\ e.url.base = AbsBase
    /\ HasPage(e.url)

ValidEntriesFor(rel) == {i \in EntriesFor(rel) : ValidEntry(hdr.entries[i])}
Last(S) == CHOOSE i \in S : \A j \in S : j <= i

LastValidDetermines(key, rel) ==
    IF ValidEntriesFor(rel) = {} THEN key \notin DOMAIN cursor
    ELSE /\ key \in DOMAIN cursor
         /\ cursor[key] = PageOf(hdr.entries[Last(ValidEntriesFor(rel))].url)

LinkParsed == op = "parseLinkHeader" /\ pc = "done"

C30_LastValidEntryDetermines ==
    LinkParsed =>
        /\ DOMAIN cursor \subseteq {"nextPage", "prevPage"}
        /\ LastValidDetermines("nextPage", RelNext)
        /\ LastValidDetermines("prevPage", RelPrev)

\* The same for headers none of whose URLs contains a comma.
LastValidDeterminesCommaFree ==
    (LinkParsed /\ CommaFree) =>
        /\ DOMAIN cursor \subseteq {"nextPage", "prevPage"}
        /\ LastValidDetermines("nextPage", RelNext)
        /\ LastValidDetermines("prevPage", RelPrev)

\* A header without any valid entry gives the empty cursor.
NoValidEntryNoCursor ==
    (LinkParsed /\ ValidEntriesFor(RelNext) = {} /\ ValidEntriesFor(RelPrev) = {})
        => cursor = NoPagination

\* A later valid entry whose URL holds a comma is passed over.
LaterEntryPassedOver ==
    /\ LinkParsed
    /\ hdr.entries = <<LinkEntry(UrlPage1, RelNext), LinkEntry(UrlTags, RelNext)>>
    /\ cursor = [nextPage |-> 1]

\* Whatever the Link header of a successful reply, the list operation returns.
ListReturnsWhateverHeader ==
    (ListInvocation /\ pc = "done" /\ Len(served) = 1 /\ SuccessArray(served[1]))
        => /\ ClientOutcome.kind = "return"
           /\ DOMAIN ClientOutcome.value.pagination \subseteq
                  {"currentPage", "perPage", "nextPage", "prevPage"}

=============================================================================
